---- MODULE Spec2Model ----
(***************************************************************************)
(* State-machine model of the UMD audit analysis core:                     *)
(*   - AgingAnalyzer (src/src/aging_analysis.py): the stored aging report  *)
(*     and the operations that build and read it;                          *)
(*   - CreditAnalyzer._validate_and_merge and the balance analysis        *)
(*     (src/src/credit_analysis.py);                                       *)
(*   - the three-way match script (src/src/three_way_match.py);            *)
(*   - UMDDataLoader's loading and cleaning (src/src/data_loader.py) and   *)
(*     the run of the whole pipeline (src/src/main_analysis.py).           *)
(*                                                                         *)
(* Tables (pandas DataFrames) are sequences of records, one record per     *)
(* row; a missing cell (NaN / NaT) is the value NaN, which no real cell    *)
(* holds.  Amounts are whole currency units and dates are day numbers, so  *)
(* sums are exact and the 0.01 tolerances of the code compare integers.    *)
(***************************************************************************)
EXTENDS Integers, Sequences, FiniteSets, TLC

VARIABLES
    dataframes,     \* UMDDataLoader.dataframes: the loaded tables
    pandas_observed,\* default of groupby/pivot_table `observed` in the installed pandas
    pandas_datetime_unit, \* resolution to_datetime gives parsed dates in the installed pandas
    aging_report,   \* AgingAnalyzer.aging_report
    last_call,      \* the most recent perform_aging_analysis call and its outcome
    merge_call,     \* arguments of a _validate_and_merge call
    merge_result,   \* what that call returned
    bucket_days,    \* a DaysPastDue value handed to the bucketing step
    bucket_label,   \* the label the bucketing step gave it
    tw_tables,      \* the tables read by the three-way match script
    three_way,      \* the three_way frame the script builds
    review_call,    \* arguments of a comparison or allowance call on the analyzer
    review_result   \* what that call returned

vars == <<dataframes, pandas_observed, pandas_datetime_unit, aging_report, last_call,
          merge_call, merge_result, bucket_days, bucket_label, tw_tables, three_way,
          review_call, review_result>>

aging_vars == <<dataframes, pandas_observed, pandas_datetime_unit, aging_report, last_call>>
merge_vars == <<merge_call, merge_result>>
bucket_vars == <<bucket_days, bucket_label>>
tw_vars == <<tw_tables, three_way>>
review_vars == <<review_call, review_result>>

\* A missing cell (numpy.nan, pandas.NaT): a value no real cell of the model holds.
NaN == -1

(***************************************************************************)
(* Bounds of the model.                                                    *)
(***************************************************************************)
MaxInvoices == 2
MaxOrders == 2

(***************************************************************************)
(* Generic helpers on tables.                                              *)
(***************************************************************************)
Range(s) == {s[i] : i \in DOMAIN s}

\* Series.sum(): missing cells are skipped, an empty sum is 0.
Amount(x) == IF x = NaN THEN 0 ELSE x

RECURSIVE SumTotalDue(_)
SumTotalDue(rows) ==
    IF rows = <<>> THEN 0 ELSE Amount(Head(rows).TotalDue) + SumTotalDue(Tail(rows))

RECURSIVE Concat(_)
Concat(ss) == IF ss = <<>> THEN <<>> ELSE Head(ss) \o Concat(Tail(ss))

\* The sequences of length at most n over S.
SeqsUpTo(S, n) == UNION {[1..k -> S] : k \in 0..n}

\* The elements of a finite set of integers in ascending order.
RECURSIVE SortedSeq(_)
SortedSeq(S) ==
    IF S = {} THEN <<>>
    ELSE LET m == CHOOSE x \in S : \A y \in S : x <= y
         IN <<m>> \o SortedSeq(S \ {m})

\* DataFrame.drop_duplicates(): the first occurrence of every row, in order.
RECURSIVE drop_duplicates(_)
drop_duplicates(s) ==
    IF s = <<>> THEN <<>>
    ELSE LET front == SubSeq(s, 1, Len(s) - 1)
             last == s[Len(s)]
         IN IF last \in Range(front) THEN drop_duplicates(front)
            ELSE Append(drop_duplicates(front), last)

(***************************************************************************)
(* The loader's tables (UMDDataLoader.dataframes) as the aging engine      *)
(* reads them.  Dates are day numbers.                                     *)
(***************************************************************************)
CustIDs == {1, 2}
InvoiceDates == {905, 1030}
AsOfDates == {1000, 1395}

\* as_of_date when the caller passes None: datetime(2017, 12, 31), as a day number.
DefaultAsOfDate == 1000

\* A row of customer_invoices with InvoiceID id.  A paid invoice is dropped by
\* the first filter, so its other cells are fixed.
InvoiceRows(id) ==
    {[InvoiceID |-> id, CustID |-> c, InvoiceDate |-> d, IsPaid |-> FALSE] :
        c \in CustIDs \cup {NaN}, d \in InvoiceDates}
    \cup {[InvoiceID |-> id, CustID |-> 1, InvoiceDate |-> NaN, IsPaid |-> FALSE]}
    \cup {[InvoiceID |-> id, CustID |-> 1, InvoiceDate |-> 905, IsPaid |-> TRUE]}

\* customer_invoices: InvoiceID is unique, rows in InvoiceID order.
InvoiceTables ==
    UNION {{t \in [1..n -> UNION {InvoiceRows(id) : id \in 1..n}] :
                \A i \in 1..n : t[i].InvoiceID = i} : n \in 0..MaxInvoices}

\* The columns of sales_orders the aging engine reads.
OrderRows ==
    {[InvoiceID |-> id, TotalDue |-> t, OrderDate |-> 905] :
        id \in {1, 2}, t \in {100, NaN}}
    \cup {[InvoiceID |-> 1, TotalDue |-> 250, OrderDate |-> 905]}

OrderKey(r) == r.InvoiceID * 1000 + r.TotalDue

\* sales_orders: distinct rows (on the columns read), in a fixed row order.
OrderTables ==
    {t \in SeqsUpTo(OrderRows, MaxOrders) :
        \A i \in 1..(Len(t) - 1) : OrderKey(t[i]) < OrderKey(t[i + 1])}

\* UMDDataLoader.get_dataframe("sales_orders") is None when the table was not loaded.
LoaderStates ==
    {[customer_invoices |-> inv, has_sales_orders |-> TRUE, sales_orders |-> so] :
        inv \in InvoiceTables, so \in OrderTables}
    \cup {[customer_invoices |-> inv, has_sales_orders |-> FALSE, sales_orders |-> <<>>] :
        inv \in InvoiceTables}

(***************************************************************************)
(* AgingAnalyzer._calculate_invoice_aging                                  *)
(***************************************************************************)
BucketLabels == <<"0-30", "31-60", "61-90", "90+">>

\* AgingBucket with left-closed bins (pd.cut(..., right=False)).
AgingBucket_LeftClosed(d) ==
    IF d < 30 THEN BucketLabels[1]
    ELSE IF d < 60 THEN BucketLabels[2]
    ELSE IF d < 90 THEN BucketLabels[3]
    ELSE BucketLabels[4]

\* pd.cut(DaysPastDue, bins=[-inf, 30, 60, 90, inf], labels=[...]): right-closed bins.
AgingBucket(d) ==
    IF d <= 30 THEN BucketLabels[1]
    ELSE IF d <= 60 THEN BucketLabels[2]
    ELSE IF d <= 90 THEN BucketLabels[3]
    ELSE BucketLabels[4]

\* pd.merge(unpaid[[InvoiceID, CustID, InvoiceDate]],
\*          sales_orders[[InvoiceID, TotalDue, OrderDate]].drop_duplicates(),
\*          on="InvoiceID", how="left"): one row per matching order row, in order,
\* or one row with missing TotalDue and OrderDate when no order row matches.
MergeInvoiceOrders(unpaid, orders) ==
    LET RowsFor(inv) ==
            LET hits == SelectSeq(orders, LAMBDA o : o.InvoiceID = inv.InvoiceID)
            IN IF hits = <<>>
               THEN << [InvoiceID |-> inv.InvoiceID, CustID |-> inv.CustID,
                        InvoiceDate |-> inv.InvoiceDate,
                        TotalDue |-> NaN, OrderDate |-> NaN] >>
               ELSE [i \in DOMAIN hits |->
                       [InvoiceID |-> inv.InvoiceID, CustID |-> inv.CustID,
                        InvoiceDate |-> inv.InvoiceDate,
                        TotalDue |-> hits[i].TotalDue, OrderDate |-> hits[i].OrderDate]]
    IN Concat([i \in DOMAIN unpaid |-> RowsFor(unpaid[i])])

\* InvoiceDate.fillna(OrderDate)
FillInvoiceDate(r) ==
    [r EXCEPT !.InvoiceDate = IF r.InvoiceDate = NaN THEN r.OrderDate ELSE r.InvoiceDate]

\* The retained range of DaysPastDue.
MinDaysPastDue == -30
MaxDaysPastDue == 365

\* InRetainedRange with both endpoints left out.
InRetainedRange_Exclusive(d) == d > MinDaysPastDue /\ d < MaxDaysPastDue

InRetainedRange(d) == d >= MinDaysPastDue /\ d <= MaxDaysPastDue

\* Returns the detailed rows; <<>> is the empty DataFrame (also returned when the
\* merge raises because sales_orders is None and the exception is caught).
calculate_invoice_aging(unpaid_invoices, has_sales_orders, sales_orders, as_of_date) ==
    IF ~has_sales_orders THEN <<>>
    ELSE
    LET merged == MergeInvoiceOrders(unpaid_invoices, drop_duplicates(sales_orders))
        filled == [i \in DOMAIN merged |-> FillInvoiceDate(merged[i])]
        dated == SelectSeq(filled, LAMBDA r : r.InvoiceDate # NaN)
        aged == [i \in DOMAIN dated |->
                    [InvoiceID |-> dated[i].InvoiceID, CustID |-> dated[i].CustID,
                     InvoiceDate |-> dated[i].InvoiceDate,
                     TotalDue |-> dated[i].TotalDue, OrderDate |-> dated[i].OrderDate,
                     DaysPastDue |-> as_of_date - dated[i].InvoiceDate]]
        kept == SelectSeq(aged, LAMBDA r : InRetainedRange(r.DaysPastDue))
    IN [i \in DOMAIN kept |->
          [InvoiceID |-> kept[i].InvoiceID, CustID |-> kept[i].CustID,
           InvoiceDate |-> kept[i].InvoiceDate,
           TotalDue |-> kept[i].TotalDue, OrderDate |-> kept[i].OrderDate,
           DaysPastDue |-> kept[i].DaysPastDue,
           AgingBucket |-> AgingBucket(kept[i].DaysPastDue)]]

(***************************************************************************)
(* AgingAnalyzer._create_aging_report                                      *)
(***************************************************************************)
\* groupby(["CustID", "AgingBucket"]) drops the rows whose CustID is missing.
GroupedCustIDs(invoice_details) == {r.CustID : r \in Range(invoice_details)} \ {NaN}

\* The bucket columns of the pivot: every category when unobserved categories
\* are kept (observed=False), else the buckets some grouped row falls in.  When
\* no row has a CustID the pivot has no rows, with all or none of the columns.
PivotColumns(invoice_details, observed) ==
    IF observed
    THEN {r.AgingBucket : r \in {x \in Range(invoice_details) : x.CustID # NaN}}
    ELSE Range(BucketLabels)

\* agg({"TotalDue": "sum"}) of one (CustID, AgingBucket) group; fill_value=0.
GroupTotalDue(invoice_details, c, b) ==
    SumTotalDue(SelectSeq(invoice_details, LAMBDA r : r.CustID = c /\ r.AgingBucket = b))

\* RowTotal with the last bucket column left out of bucket_columns.
RowTotal_NoOver90(cells) ==
    LET labels == SelectSeq(SubSeq(BucketLabels, 1, 3), LAMBDA b : b \in DOMAIN cells)
    IN SumTotalDue([i \in DOMAIN labels |-> [TotalDue |-> cells[labels[i]]]])

\* aging_pivot["Total"] = aging_pivot[existing_columns].sum(axis=1)
RowTotal(cells) ==
    LET labels == SelectSeq(BucketLabels, LAMBDA b : b \in DOMAIN cells)
    IN SumTotalDue([i \in DOMAIN labels |-> [TotalDue |-> cells[labels[i]]]])

\* One row per customer, in CustID order, one cell per bucket column, and Total.
create_aging_report(invoice_details, observed) ==
    LET custs == SortedSeq(GroupedCustIDs(invoice_details))
        cols == PivotColumns(invoice_details, observed)
        Cells(c) == [b \in cols |-> GroupTotalDue(invoice_details, c, b)]
    IN [columns |-> cols,
        rows |-> [i \in DOMAIN custs |->
                    [CustID |-> custs[i], cells |-> Cells(custs[i]),
                     Total |-> RowTotal(Cells(custs[i]))]]]

(***************************************************************************)
(* AgingAnalyzer.perform_aging_analysis and the stored report              *)
(***************************************************************************)
\* self.aging_report = None (__init__).  metadata.processing_time is wall-clock
\* time and is left out of the report.
NoReport ==
    [is_none |-> TRUE,
     detailed |-> <<>>,
     summary |-> [columns |-> {}, rows |-> <<>>],
     over_90_days |-> <<>>,
     metadata |-> [as_of_date |-> NaN, total_invoices |-> 0, total_customers |-> 0]]

\* Over90Days without the DaysPastDue > 90 filter.
Over90Days_Unfiltered(invoice_details) ==
    LET custs == SortedSeq(GroupedCustIDs(invoice_details))
    IN [i \in DOMAIN custs |->
          [CustID |-> custs[i],
           TotalDue |-> SumTotalDue(SelectSeq(invoice_details,
                                              LAMBDA r : r.CustID = custs[i]))]]

\* invoice_details[DaysPastDue > 90][[CustID, TotalDue, DaysPastDue]]
\*     .groupby("CustID")["TotalDue"].sum().reset_index()
Over90Days(invoice_details) ==
    LET over == SelectSeq(invoice_details, LAMBDA r : r.DaysPastDue > 90)
        custs == SortedSeq(GroupedCustIDs(over))
    IN [i \in DOMAIN custs |->
          [CustID |-> custs[i],
           TotalDue |-> SumTotalDue(SelectSeq(over, LAMBDA r : r.CustID = custs[i]))]]

\* The dict assigned to self.aging_report.
BuildReport(invoice_details, aging_pivot, as_of_date) ==
    [is_none |-> FALSE,
     detailed |-> invoice_details,
     summary |-> aging_pivot,
     over_90_days |-> Over90Days(invoice_details),
     metadata |-> [as_of_date |-> as_of_date,
                   total_invoices |-> Len(invoice_details),
                   total_customers |-> Len(aging_pivot.rows)]]

\* invoices[~invoices["IsPaid"]].copy()
UnpaidInvoices(invoices) == SelectSeq(invoices, LAMBDA r : ~r.IsPaid)

\* No call yet.  `repeat` says that the call before this one had the same as-of
\* date and read the same tables.
NoCall == [called |-> FALSE, as_of_date |-> NaN, outcome |-> "none", repeat |-> FALSE]

\* How a perform_aging_analysis call on tables df with the given as-of date ends:
\* "raised" (ValueError, no invoices), "no_unpaid" and "no_details" (an empty
\* DataFrame is returned), "stored" (the report is assigned and the pivot returned).
CallOutcome(df, as_of_date) ==
    LET unpaid == UnpaidInvoices(df.customer_invoices)
    IN IF df.customer_invoices = <<>> THEN "raised"
       ELSE IF unpaid = <<>> THEN "no_unpaid"
       ELSE IF calculate_invoice_aging(unpaid, df.has_sales_orders,
                                       df.sales_orders, as_of_date) = <<>>
            THEN "no_details"
       ELSE "stored"

\* The report a call on tables df with the given as-of date computes.
ComputedReport(df, as_of_date, observed) ==
    LET details == calculate_invoice_aging(UnpaidInvoices(df.customer_invoices),
                                           df.has_sales_orders, df.sales_orders,
                                           as_of_date)
    IN BuildReport(details, create_aging_report(details, observed), as_of_date)

\* self.aging_report after the call: assigned only on the "stored" path.
ReportAfterCall(report, df, as_of_date, observed) ==
    IF CallOutcome(df, as_of_date) = "stored"
    THEN ComputedReport(df, as_of_date, observed)
    ELSE report

\* TablesAfterCall with the unpaid filter applied to the loader's own table.
TablesAfterCall_InPlace(df) ==
    [df EXCEPT !.customer_invoices = UnpaidInvoices(df.customer_invoices)]

\* The loader's tables after the call: the engine filters and merges into new
\* frames (.copy(), pd.merge) and never assigns into the loader's.
TablesAfterCall(df) == df

\* as_of_date=None means the fiscal year end.
ResolveAsOf(arg) == IF arg = NaN THEN DefaultAsOfDate ELSE arg

perform_aging_analysis(as_of_arg) ==
    LET as_of_date == ResolveAsOf(as_of_arg)
    IN /\ aging_report' = ReportAfterCall(aging_report, dataframes, as_of_date,
                                          pandas_observed)
       /\ dataframes' = TablesAfterCall(dataframes)
       /\ last_call' = [called |-> TRUE, as_of_date |-> as_of_date,
                        outcome |-> CallOutcome(dataframes, as_of_date),
                        repeat |-> last_call.called
                                   /\ last_call.as_of_date = as_of_date]
       /\ UNCHANGED <<pandas_observed, pandas_datetime_unit, merge_vars, bucket_vars, tw_vars,
                    review_vars>>

(***************************************************************************)
(* AgingAnalyzer.validate_analysis_results                                 *)
(***************************************************************************)
RECURSIVE SumTotal(_)
SumTotal(rows) == IF rows = <<>> THEN 0 ELSE Head(rows).Total + SumTotal(Tail(rows))

Abs(x) == IF x < 0 THEN 0 - x ELSE x

\* Check 2: summary["Total"].sum() against detailed["TotalDue"].sum(), made only
\* when neither table is empty.  The tolerance 0.01 is below one currency unit.
TotalsChecked(report) == report.detailed # <<>> /\ report.summary.rows # <<>>

TotalsMatch(report) ==
    Abs(SumTotal(report.summary.rows) - SumTotalDue(report.detailed)) = 0

\* Check 3 runs only when over_90_days is not empty.
StaleFlagged(report) ==
    /\ report.over_90_days # <<>>
    /\ \E r \in Range(report.detailed) : r.DaysPastDue > MaxDaysPastDue

NegativeFlagged(report) ==
    /\ report.over_90_days # <<>>
    /\ \E r \in Range(report.detailed) : r.DaysPastDue < 0

\* The returned dict: is_valid, checks["totals_match"] (absent when check 2 is
\* skipped) and the recommendations, each named by its leading words.
validate_analysis_results(report) ==
    IF report.is_none
    THEN [is_valid |-> FALSE, totals_match |-> "absent",
          recommendations |-> <<"No aging analysis performed">>]
    ELSE LET mismatch == TotalsChecked(report) /\ ~TotalsMatch(report)
             valid == ~mismatch
         IN [is_valid |-> valid,
             totals_match |-> IF ~TotalsChecked(report) THEN "absent"
                              ELSE IF mismatch THEN "False" ELSE "True",
             recommendations |->
                 (IF mismatch THEN <<"Summary total doesn't match detailed total">>
                  ELSE <<>>)
                 \o (IF StaleFlagged(report)
                     THEN <<"Some invoices are more than 365 days past due">> ELSE <<>>)
                 \o (IF NegativeFlagged(report)
                     THEN <<"invoices show negative days past due (future dated)">>
                     ELSE <<>>)
                 \o (IF valid THEN <<"All validation checks passed">>
                     ELSE <<"Some validation checks failed - review results">>)]

(***************************************************************************)
(* Idle values of the variables a specification does not use.              *)
(***************************************************************************)
IdleMerge == /\ merge_call = <<>>
             /\ merge_result = <<>>
IdleBucket == /\ bucket_days = 0
              /\ bucket_label = ""
IdleThreeWay == /\ tw_tables = <<>>
                /\ three_way = <<>>
IdleReview == /\ review_call = <<>>
              /\ review_result = <<>>
IdleAging == /\ dataframes = <<>>
             /\ pandas_observed = FALSE
             /\ pandas_datetime_unit = "ns"
             /\ aging_report = NoReport
             /\ last_call = NoCall

(***************************************************************************)
(* Spec: an AgingAnalyzer over loaded tables.                              *)
(***************************************************************************)
Init ==
    /\ dataframes \in LoaderStates
    /\ pandas_observed \in BOOLEAN
    /\ pandas_datetime_unit = "ns"
    /\ aging_report = NoReport
    /\ last_call = NoCall
    /\ IdleMerge /\ IdleBucket /\ IdleThreeWay /\ IdleReview

Next == \E a \in AsOfDates \cup {NaN} : perform_aging_analysis(a)

Spec == Init /\ [][Next]_vars

(***************************************************************************)
(* Properties of the aging engine.                                         *)
(***************************************************************************)
\* The TotalDue of the detailed rows of customer c, missing cells counting 0.
DetailedTotalDueOf(report, c) ==
    SumTotalDue(SelectSeq(report.detailed, LAMBDA r : r.CustID = c))

\* The summary rows of customer c.
SummaryRowsOf(report, c) == SelectSeq(report.summary.rows, LAMBDA r : r.CustID = c)

\* C1: in every stored report, each customer with detailed rows has exactly one
\* summary row, no other customer has one, and that row's bucket columns and its
\* Total both add up to the TotalDue of the customer's detailed rows (a missing
\* TotalDue adds nothing; rows without a CustID belong to no customer).
C1_SummaryMatchesDetailed ==
    ~aging_report.is_none =>
        \A c \in CustIDs :
            LET rows == SummaryRowsOf(aging_report, c)
                has == \E r \in Range(aging_report.detailed) : r.CustID = c
            IN /\ Len(rows) = (IF has THEN 1 ELSE 0)
               /\ \A i \in DOMAIN rows :
                    /\ rows[i].Total = DetailedTotalDueOf(aging_report, c)
                    /\ SumTotalDue([k \in 1..Len(BucketLabels) |->
                          [TotalDue |-> IF BucketLabels[k] \in DOMAIN rows[i].cells
                                        THEN rows[i].cells[BucketLabels[k]] ELSE 0]])
                       = DetailedTotalDueOf(aging_report, c)

\* C1 witness: a stored report whose detailed table has a row without CustID, a
\* row without TotalDue, and a customer with two rows and a positive total.
C1_Witness ==
    /\ ~aging_report.is_none
    /\ \E r \in Range(aging_report.detailed) : r.CustID = NaN
    /\ \E r \in Range(aging_report.detailed) : r.CustID # NaN /\ r.TotalDue = NaN
    /\ \E c \in CustIDs :
          /\ Len(SelectSeq(aging_report.detailed, LAMBDA r : r.CustID = c)) >= 2
          /\ DetailedTotalDueOf(aging_report, c) > 0

\* C3 (as claimed): once a call has returned, a stored report comes from that
\* call alone: it is the report computed from the call's tables and as-of date,
\* also when that call found no unpaid invoices or no valid invoice details.
C3_ReplacedWholesale ==
    (last_call.called /\ last_call.outcome # "raised" /\ ~aging_report.is_none) =>
        aging_report = ComputedReport(dataframes, last_call.as_of_date, pandas_observed)

\* C4 (as claimed): after a call that found every invoice paid, the analyzer's
\* state and its validation result differ from those of a fresh analyzer.
C4_EmptyDistinguishable ==
    (last_call.called /\ last_call.outcome = "no_unpaid") =>
        /\ aging_report # NoReport
        /\ validate_analysis_results(aging_report) # validate_analysis_results(NoReport)

BucketMargin == 5

BucketDays == (MinDaysPastDue - BucketMargin)..(MaxDaysPastDue + BucketMargin)

InitBucket ==
    /\ bucket_days \in BucketDays
    /\ bucket_label = ""
    /\ IdleAging /\ IdleMerge /\ IdleThreeWay /\ IdleReview

\* A row outside the retained range is filtered out before pd.cut sees it.
AssignBucket ==
    /\ bucket_label = ""
    /\ bucket_label' = IF InRetainedRange(bucket_days) THEN AgingBucket(bucket_days)
                       ELSE "filtered"
    /\ UNCHANGED <<bucket_days, aging_vars, merge_vars, tw_vars, review_vars>>

SpecBucket == InitBucket /\ [][AssignBucket]_vars

\* The label the claim gives DaysPastDue d.
ClaimedBucket(d) ==
    CASE d <= 30 -> "0-30"
      [] d > 30 /\ d <= 60 -> "31-60"
      [] d > 60 /\ d <= 90 -> "61-90"
      [] d > 90 -> "90+"

\* C2: every DaysPastDue in the retained range [-30, 365] gets exactly one of the
\* four labels: 0-30 up to 30 (negative values included), 31-60 up to 60, 61-90
\* up to 90, 90+ above; 30, 60 and 90 fall in the lower bucket.
C2_BucketAssignment ==
    (bucket_label # "" /\ bucket_days >= -30 /\ bucket_days <= 365) =>
        /\ bucket_label \in {"0-30", "31-60", "61-90", "90+"}
        /\ bucket_label = ClaimedBucket(bucket_days)

\* C2 witness: a boundary value has been labelled.
C2_Witness ==
    /\ bucket_days \in {30, 60, 90}
    /\ bucket_label \in {"0-30", "31-60", "61-90"}

(***************************************************************************)
(* CreditAnalyzer._validate_and_merge                                      *)
(*                                                                         *)
(* A table is [columns |-> set of names, rows |-> sequence of rows], a row *)
(* being a function from the table's columns to cells.                     *)
(***************************************************************************)
MaxLeftRows == 2
MaxRightRows == 2

MergeKeys == {1, 2}
JoinKinds == {"left", "right", "inner", "outer"}

\* merge_threshold in hundredths: 0.8 is the default, 0.7 is what
\* analyze_balance_vs_credit_limit passes, 0 and 1 are the ends of [0, 1].
MergeThresholds == {0, 70, 80, 100}

\* The cell of non-key column c in row i of an input table.
LeftCell(c, i) == IF c = "A" THEN 10 + i ELSE IF c = "B" THEN 20 + i ELSE 30 + i
RightCell(c, j) == 40 + j

\* Column sets of the inputs: with and without the key, with a column on both
\* sides ("B"), and with a column that already carries a suffix.  No set makes
\* pd.merge produce the same name from both sides.
LeftColumnSets ==
    {{"K", "A"}, {"A"}, {"K", "B"}, {"K", "B_right"}, {"K", "B", "B_left"}}
RightColumnSets == {{"K", "B"}, {"B"}, {"K"}}

LeftTables ==
    {[columns |-> cols,
      rows |-> [i \in DOMAIN keys |->
                  [c \in cols |-> IF c = "K" THEN keys[i] ELSE LeftCell(c, i)]]] :
        cols \in LeftColumnSets, keys \in SeqsUpTo(MergeKeys, MaxLeftRows)}

RightTables ==
    {[columns |-> cols,
      rows |-> [j \in DOMAIN keys |->
                  [c \in cols |-> IF c = "K" THEN keys[j] ELSE RightCell(c, j)]]] :
        cols \in RightColumnSets, keys \in SeqsUpTo(MergeKeys, MaxRightRows)}

\* The calls made: the key has the same name on both sides (right_on=None), the
\* suffixes are the defaults.
MergeCalls ==
    {[left_df |-> l, right_df |-> r, left_on |-> "K", right_on |-> "K", how |-> h,
      left_suffix |-> "_left", right_suffix |-> "_right", merge_threshold |-> t] :
        l \in LeftTables, r \in RightTables, h \in JoinKinds, t \in MergeThresholds}

\* left_df.assign(**{f"{col}{right_suffix}": np.nan for col in right_df.columns
\*                   if col != right_on}): a column of that name is replaced.
AssignNullColumns(left_df, right_df, right_on, right_suffix) ==
    LET added == {c \o right_suffix : c \in right_df.columns \ {right_on}}
        cols == left_df.columns \cup added
    IN [columns |-> cols,
        rows |-> [i \in DOMAIN left_df.rows |->
                    [c \in cols |-> IF c \in added THEN NaN ELSE left_df.rows[i][c]]]]

\* The diagnostics of the four early/fallback returns.  merge_rate is the
\* fraction num/den; the keys the fallback dict does not hold are NaN.
FailedDiagnostics(left_count, right_count, error) ==
    [success |-> FALSE,
     merge_rate |-> [num |-> 0, den |-> 1],
     left_matched |-> NaN,
     right_matched |-> NaN,
     left_unmatched |-> left_count,
     right_unmatched |-> right_count,
     error |-> error]

\* pd.merge names: a non-key column on both sides gets the side's suffix.
OverlapColumns(l, r, left_on, right_on) ==
    (l.columns \cap r.columns) \ (IF left_on = right_on THEN {left_on} ELSE {})

LeftName(c, overlap, left_suffix) == IF c \in overlap THEN c \o left_suffix ELSE c
RightName(c, overlap, right_suffix) == IF c \in overlap THEN c \o right_suffix ELSE c

\* The right columns that become columns of their own (a key of the same name
\* on both sides is one column).
RightOwnColumns(r, left_on, right_on) ==
    r.columns \ (IF left_on = right_on THEN {right_on} ELSE {})

\* pd.merge raises MergeError when a suffix gives two columns of one side the
\* same name.
MergeRaises(l, r, left_on, right_on, left_suffix, right_suffix) ==
    LET overlap == OverlapColumns(l, r, left_on, right_on)
        lnames == {LeftName(c, overlap, left_suffix) : c \in l.columns}
        rown == RightOwnColumns(r, left_on, right_on)
        rnames == {RightName(c, overlap, right_suffix) : c \in rown}
    IN \/ Cardinality(lnames) # Cardinality(l.columns)
       \/ Cardinality(rnames) # Cardinality(rown)

\* One row of the merged frame from left row lrow and right row rrow; `hasl`,
\* `hasr` say which side is present (the other side's cells are missing).
MergedRow(l, r, left_on, right_on, left_suffix, right_suffix, hasl, lrow, hasr, rrow) ==
    LET overlap == OverlapColumns(l, r, left_on, right_on)
        rown == RightOwnColumns(r, left_on, right_on)
        lcells == [n \in {LeftName(c, overlap, left_suffix) : c \in l.columns} |->
                     LET c == CHOOSE c \in l.columns :
                                 LeftName(c, overlap, left_suffix) = n
                     IN IF hasl THEN lrow[c]
                        ELSE IF c = left_on /\ left_on = right_on THEN rrow[right_on]
                        ELSE NaN]
        rcells == [n \in {RightName(c, overlap, right_suffix) : c \in rown} |->
                     LET c == CHOOSE c \in rown :
                                 RightName(c, overlap, right_suffix) = n
                     IN IF hasr THEN rrow[c] ELSE NaN]
    IN [n \in DOMAIN lcells \cup DOMAIN rcells |->
          IF n \in DOMAIN lcells THEN lcells[n] ELSE rcells[n]]

\* pd.merge(left_df, right_df, left_on=, right_on=, how=, suffixes=).
PdMerge(l, r, left_on, right_on, how, left_suffix, right_suffix) ==
    LET overlap == OverlapColumns(l, r, left_on, right_on)
        Row(hasl, lrow, hasr, rrow) ==
            MergedRow(l, r, left_on, right_on, left_suffix, right_suffix,
                      hasl, lrow, hasr, rrow)
        LeftHits(rrow) == SelectSeq(l.rows, LAMBDA x : x[left_on] = rrow[right_on])
        RightHits(lrow) == SelectSeq(r.rows, LAMBDA x : x[right_on] = lrow[left_on])
        \* every left row with its matches, or alone when `keep` and it has none
        FromLeft(keep) ==
            Concat([i \in DOMAIN l.rows |->
                LET hits == RightHits(l.rows[i])
                IN IF hits = <<>>
                   THEN IF keep THEN <<Row(TRUE, l.rows[i], FALSE, l.rows[i])>> ELSE <<>>
                   ELSE [j \in DOMAIN hits |-> Row(TRUE, l.rows[i], TRUE, hits[j])]])
        \* every right row with its matches, or alone when it has none
        FromRight ==
            Concat([j \in DOMAIN r.rows |->
                LET hits == LeftHits(r.rows[j])
                IN IF hits = <<>>
                   THEN <<Row(FALSE, r.rows[j], TRUE, r.rows[j])>>
                   ELSE [i \in DOMAIN hits |-> Row(TRUE, hits[i], TRUE, r.rows[j])]])
        RightOnly ==
            Concat([j \in DOMAIN r.rows |->
                IF LeftHits(r.rows[j]) = <<>>
                THEN <<Row(FALSE, r.rows[j], TRUE, r.rows[j])>> ELSE <<>>])
    IN [columns |-> {LeftName(c, overlap, left_suffix) : c \in l.columns}
                    \cup {RightName(c, overlap, right_suffix) :
                            c \in RightOwnColumns(r, left_on, right_on)},
        rows |-> CASE how = "left" -> FromLeft(TRUE)
                   [] how = "inner" -> FromLeft(FALSE)
                   [] how = "right" -> FromRight
                   [] how = "outer" -> FromLeft(TRUE) \o RightOnly]

\* merged_df[col].notna().sum()
NotNaCount(table, col) ==
    Cardinality({i \in DOMAIN table.rows : table.rows[i][col] # NaN})

\* left_matched: the non-null cells of column left_on + left_suffix when the
\* merged frame has such a column, else the merged frame's row count.
LeftMatched(merged_df, left_on, left_suffix) ==
    IF (left_on \o left_suffix) \in merged_df.columns
    THEN NotNaCount(merged_df, left_on \o left_suffix)
    ELSE Len(merged_df.rows)

RightMatched(merged_df, right_on) ==
    IF right_on \in merged_df.columns
    THEN NotNaCount(merged_df, right_on)
    ELSE Len(merged_df.rows)

\* RateAtLeast with a strict comparison.
RateAbove(rate, threshold) == rate.num * 100 > threshold * rate.den

\* merge_rate >= merge_threshold, the threshold being in hundredths.
RateAtLeast(rate, threshold) == rate.num * 100 >= threshold * rate.den

MergeDiagnostics(merged_df, left_count, right_count, left_on, right_on, left_suffix, merge_threshold) ==
    LET left_matched == LeftMatched(merged_df, left_on, left_suffix)
        right_matched == RightMatched(merged_df, right_on)
        merge_rate == IF left_count > 0
                      THEN [num |-> left_matched, den |-> left_count]
                      ELSE [num |-> 0, den |-> 1]
    IN [success |-> RateAtLeast(merge_rate, merge_threshold),
        merge_rate |-> merge_rate,
        left_matched |-> left_matched,
        right_matched |-> right_matched,
        left_unmatched |-> left_count - left_matched,
        right_unmatched |-> right_count - right_matched,
        error |-> "None"]

\* The tuple (merged DataFrame, diagnostics) the call returns.  merged_id names
\* the object returned: the new frame of DataFrame.assign ("assign") or of
\* pd.merge ("merge"), neither being the left_df or right_df passed in.
validate_and_merge(left_df, right_df, left_on, right_on, how, left_suffix, right_suffix, merge_threshold) ==
    LET left_count == Len(left_df.rows)
        right_count == Len(right_df.rows)
        Fallback(error) ==
            [returned |-> TRUE,
             merged_id |-> "assign",
             merged |-> AssignNullColumns(left_df, right_df, right_on, right_suffix),
             diagnostics |-> FailedDiagnostics(left_count, right_count, error)]
    IN IF left_count = 0 \/ right_count = 0 THEN Fallback("Empty DataFrame")
       ELSE IF left_on \notin left_df.columns THEN Fallback("Missing left column")
       ELSE IF right_on \notin right_df.columns THEN Fallback("Missing right column")
       ELSE IF MergeRaises(left_df, right_df, left_on, right_on,
                           left_suffix, right_suffix)
            THEN Fallback("MergeError")
       ELSE LET merged_df == PdMerge(left_df, right_df, left_on, right_on, how,
                                     left_suffix, right_suffix)
            IN [returned |-> TRUE,
                merged_id |-> "merge",
                merged |-> merged_df,
                diagnostics |-> MergeDiagnostics(merged_df, left_count, right_count,
                                                 left_on, right_on, left_suffix,
                                                 merge_threshold)]

(***************************************************************************)
(* SpecMerge: one _validate_and_merge call.                                *)
(***************************************************************************)
NoMergeResult ==
    [returned |-> FALSE,
     merged_id |-> "none",
     merged |-> [columns |-> {}, rows |-> <<>>],
     diagnostics |-> FailedDiagnostics(0, 0, "None")]

InitMerge ==
    /\ merge_call \in MergeCalls
    /\ merge_result = NoMergeResult
    /\ IdleAging /\ IdleBucket /\ IdleThreeWay /\ IdleReview

\* InputsAfterCall with the null columns of the fallback assigned into left_df.
InputsAfterCall_InPlace(call) ==
    [call EXCEPT !.left_df = AssignNullColumns(call.left_df, call.right_df,
                                               call.right_on, call.right_suffix)]

\* The arguments after the call: DataFrame.assign and pd.merge build new
\* frames and nothing is assigned into left_df or right_df.
InputsAfterCall(call) == call

CallValidateAndMerge ==
    /\ ~merge_result.returned
    /\ merge_call' = InputsAfterCall(merge_call)
    /\ merge_result' = validate_and_merge(
            merge_call.left_df, merge_call.right_df, merge_call.left_on,
            merge_call.right_on, merge_call.how, merge_call.left_suffix,
            merge_call.right_suffix, merge_call.merge_threshold)
    /\ UNCHANGED <<aging_vars, bucket_vars, tw_vars, review_vars>>

SpecMerge == InitMerge /\ [][CallValidateAndMerge]_vars

(***************************************************************************)
(* Properties of _validate_and_merge.                                      *)
(***************************************************************************)
\* The left rows whose key occurs in the right table's key column.
MatchedLeftRows(call) ==
    Cardinality({i \in DOMAIN call.left_df.rows :
        \E j \in DOMAIN call.right_df.rows :
            call.right_df.rows[j][call.right_on] = call.left_df.rows[i][call.left_on]})

\* The call took one of the precondition returns (empty table, missing key).
PreconditionReturn ==
    /\ merge_result.returned
    /\ merge_result.diagnostics.error \in
          {"Empty DataFrame", "Missing left column", "Missing right column"}

\* C6 (as claimed): whatever the join kind and the key multiplicities, the
\* returned merge_rate lies in [0, 1].
C6_MergeRateInUnitInterval ==
    merge_result.returned =>
        /\ 0 <= merge_result.diagnostics.merge_rate.num
        /\ merge_result.diagnostics.merge_rate.num
              <= merge_result.diagnostics.merge_rate.den

\* C7 (as claimed): after a join that raised nothing, merge_rate is the number of
\* left rows with a matching right row over the number of left rows.
C7_MergeRateIsMatchedFraction ==
    (merge_result.returned /\ merge_result.diagnostics.error = "None") =>
        merge_result.diagnostics.merge_rate.num * Len(merge_call.left_df.rows)
            = MatchedLeftRows(merge_call) * merge_result.diagnostics.merge_rate.den

\* C8 (as claimed): on every return path and for every threshold in [0, 1],
\* success is true exactly when merge_rate >= merge_threshold.
C8_SuccessIffRateEverywhere ==
    merge_result.returned =>
        (merge_result.diagnostics.success <=>
            merge_result.diagnostics.merge_rate.num * 100
                >= merge_call.merge_threshold * merge_result.diagnostics.merge_rate.den)

\* C8 (amended): after a join that raised nothing, success is true exactly when
\* merge_rate >= merge_threshold, for every threshold in [0, 1]; on the other
\* return paths success is false and merge_rate is 0, so there the equivalence
\* holds exactly for the thresholds above 0.
C8_SuccessIffRate ==
    merge_result.returned =>
        LET d == merge_result.diagnostics
            reached == d.merge_rate.num * 100 >= merge_call.merge_threshold * d.merge_rate.den
        IN IF d.error = "None"
           THEN d.success <=> reached
           ELSE /\ ~d.success
                /\ d.merge_rate.num = 0
                /\ (d.success <=> reached) <=> (merge_call.merge_threshold > 0)

\* C8 witness: a join whose merge_rate equals a positive threshold succeeded.
C8_Witness ==
    /\ merge_result.returned
    /\ merge_result.diagnostics.error = "None"
    /\ merge_call.merge_threshold > 0
    /\ merge_result.diagnostics.merge_rate.num * 100
          = merge_call.merge_threshold * merge_result.diagnostics.merge_rate.den
    /\ merge_result.diagnostics.success

\* C9 (as claimed): a precondition return hands back the left table's rows and
\* columns unchanged plus one null-filled column per non-key right column, with
\* success false, merge_rate 0, the row counts as unmatched counts and an error
\* string ("Empty DataFrame" when a table is empty).
C9_PreconditionReturn ==
    PreconditionReturn =>
        LET l == merge_call.left_df
            r == merge_call.right_df
            m == merge_result.merged
            d == merge_result.diagnostics
            added == m.columns \ l.columns
        IN /\ l.columns \subseteq m.columns
           /\ Cardinality(added) = Cardinality(r.columns \ {merge_call.right_on})
           /\ Len(m.rows) = Len(l.rows)
           /\ \A i \in DOMAIN l.rows :
                 /\ \A c \in l.columns : m.rows[i][c] = l.rows[i][c]
                 /\ \A c \in added : m.rows[i][c] = NaN
           /\ ~d.success
           /\ d.merge_rate.num = 0
           /\ d.left_unmatched = Len(l.rows)
           /\ d.right_unmatched = Len(r.rows)
           /\ d.error # "None"
           /\ (Len(l.rows) = 0 \/ Len(r.rows) = 0) => d.error = "Empty DataFrame"

(***************************************************************************)
(* The three-way match script (three_way_match.py).                        *)
(***************************************************************************)
MaxTwInvoices == 2
MaxTwOrders == 2
MaxShipments == 2

\* The analysis period of the script: invoices_2017.
AnalysisYear == 2017

\* Rows of the invoices sheet: an invoice outside the period is dropped by the
\* first filter, so its order reference is fixed.  SalesOrderID 3 names no order.
TwInvoiceRows(id) ==
    {[InvoiceID |-> id, SalesOrderID |-> so, InvoiceYear |-> AnalysisYear] :
        so \in {1, 2, 3}}
    \cup {[InvoiceID |-> id, SalesOrderID |-> 1, InvoiceYear |-> AnalysisYear - 1]}

TwInvoiceTables ==
    UNION {{t \in [1..n -> UNION {TwInvoiceRows(id) : id \in 1..n}] :
                \A i \in 1..n : t[i].InvoiceID = i} : n \in 0..MaxTwInvoices}

\* Rows of the sales orders sheet (the columns the script reads that decide the
\* match): SubTotal and ShipID cells may be blank.
TwOrderRows ==
    {[SalesOrderID |-> so, SubTotal |-> amt, ShipID |-> sh] :
        so \in {1, 2}, amt \in {500, NaN}, sh \in {7, NaN}}

TwOrderKey(r) == r.SalesOrderID * 10000 + r.SubTotal * 10 + r.ShipID

TwOrderTables ==
    {t \in SeqsUpTo(TwOrderRows, MaxTwOrders) :
        \A i \in 1..(Len(t) - 1) : TwOrderKey(t[i]) < TwOrderKey(t[i + 1])}

\* Rows of the shipments sheet: the ShipDate cell may be blank.
ShipmentRows == {[ShipID |-> 7, ShipDate |-> d] : d \in {940, NaN}}

ShipmentTables ==
    {t \in SeqsUpTo(ShipmentRows, MaxShipments) :
        \A i \in 1..(Len(t) - 1) : t[i].ShipDate < t[i + 1].ShipDate}

\* invoices[invoices['InvoiceDate'].dt.year == 2017]
Invoices2017(invoices) == SelectSeq(invoices, LAMBDA r : r.InvoiceYear = AnalysisYear)

\* invoices_2017_clean.merge(sales_orders[[...]], on='SalesOrderID', how='left')
Revenue2017(invoices_2017, sales_orders) ==
    Concat([i \in DOMAIN invoices_2017 |->
        LET inv == invoices_2017[i]
            hits == SelectSeq(sales_orders,
                              LAMBDA o : o.SalesOrderID = inv.SalesOrderID)
        IN IF hits = <<>>
           THEN << [InvoiceID |-> inv.InvoiceID, SalesOrderID |-> inv.SalesOrderID,
                    SubTotal |-> NaN, ShipID |-> NaN] >>
           ELSE [j \in DOMAIN hits |->
                   [InvoiceID |-> inv.InvoiceID, SalesOrderID |-> inv.SalesOrderID,
                    SubTotal |-> hits[j].SubTotal, ShipID |-> hits[j].ShipID]]])

\* revenue_2017.merge(shipments[['ShipID', 'ShipDate']], on='ShipID', how='left')
MergeShipments(revenue_2017, shipments) ==
    Concat([i \in DOMAIN revenue_2017 |->
        LET rev == revenue_2017[i]
            hits == SelectSeq(shipments, LAMBDA x : x.ShipID = rev.ShipID)
        IN IF hits = <<>>
           THEN << [InvoiceID |-> rev.InvoiceID, SalesOrderID |-> rev.SalesOrderID,
                    SubTotal |-> rev.SubTotal, ShipID |-> rev.ShipID,
                    ShipDate |-> NaN] >>
           ELSE [j \in DOMAIN hits |->
                   [InvoiceID |-> rev.InvoiceID, SalesOrderID |-> rev.SalesOrderID,
                    SubTotal |-> rev.SubTotal, ShipID |-> rev.ShipID,
                    ShipDate |-> hits[j].ShipDate]]])

\* three_way['Has_Order'] = three_way['SubTotal'].notna()
Has_Order(row) == row.SubTotal # NaN

\* three_way['Has_Shipment'] = three_way['ShipDate'].notna()
Has_Shipment(row) == row.ShipDate # NaN

\* The three_way frame with its three flag columns.
ThreeWayFrame(tables) ==
    LET merged == MergeShipments(
                      Revenue2017(Invoices2017(tables.invoices), tables.sales_orders),
                      tables.shipments)
    IN [i \in DOMAIN merged |->
          [InvoiceID |-> merged[i].InvoiceID, SalesOrderID |-> merged[i].SalesOrderID,
           SubTotal |-> merged[i].SubTotal, ShipID |-> merged[i].ShipID,
           ShipDate |-> merged[i].ShipDate,
           Has_Order |-> Has_Order(merged[i]),
           Has_Shipment |-> Has_Shipment(merged[i]),
           Complete_Match |-> Has_Order(merged[i]) /\ Has_Shipment(merged[i])]]

\* no_ship = three_way[three_way['Has_Order'] & ~three_way['Has_Shipment']]
NoShip(frame) == SelectSeq(frame, LAMBDA r : r.Has_Order /\ ~r.Has_Shipment)

\* three_way['Complete_Match'].sum()
CompleteCount(frame) == Len(SelectSeq(frame, LAMBDA r : r.Complete_Match))

\* f"{complete / total * 100:.1f}%": the percentage in tenths of a percent,
\* rounded to the nearest tenth (a tie goes to the even tenth); 0 / 0 over
\* numpy integers is nan.
FormatMatchRate(complete, total) ==
    IF total = 0 THEN NaN
    ELSE LET q == (complete * 1000) \div total
             r == (complete * 1000) % total
         IN IF 2 * r > total THEN q + 1
            ELSE IF 2 * r = total THEN q + (q % 2)
            ELSE q

\* The Count column of the summary table and the exceptions export.
TwSummary(frame) ==
    [total |-> Len(frame),
     complete |-> CompleteCount(frame),
     no_shipment |-> Len(NoShip(frame)),
     exceptions |-> Len(SelectSeq(frame, LAMBDA r : ~r.Complete_Match)),
     match_rate |-> FormatMatchRate(CompleteCount(frame), Len(frame))]

NoThreeWay == [ran |-> FALSE, rows |-> <<>>, summary |-> TwSummary(<<>>)]

InitThreeWay ==
    /\ tw_tables \in {[invoices |-> i, sales_orders |-> o, shipments |-> sh] :
                        i \in TwInvoiceTables, o \in TwOrderTables, sh \in ShipmentTables}
    /\ three_way = NoThreeWay
    /\ IdleAging /\ IdleMerge /\ IdleBucket /\ IdleReview

RunThreeWayMatch ==
    /\ ~three_way.ran
    /\ three_way' = [ran |-> TRUE, rows |-> ThreeWayFrame(tw_tables),
                     summary |-> TwSummary(ThreeWayFrame(tw_tables))]
    /\ UNCHANGED <<tw_tables, aging_vars, merge_vars, bucket_vars, review_vars>>

SpecThreeWay == InitThreeWay /\ [][RunThreeWayMatch]_vars

\* C10 (as claimed): every row of three_way (an invoice of the period) has
\* Has_Order true exactly when its SalesOrderID is that of an order record,
\* Has_Shipment true exactly when, besides, the ShipID of the order it was
\* joined to is that of a shipment record, and Complete_Match = both.
C10_FlagsMeanMatches ==
    three_way.ran =>
        \A k \in DOMAIN three_way.rows :
            LET row == three_way.rows[k]
                order_found == \E o \in Range(tw_tables.sales_orders) :
                                    o.SalesOrderID = row.SalesOrderID
                shipment_found == /\ order_found
                                  /\ \E x \in Range(tw_tables.shipments) :
                                        x.ShipID = row.ShipID
            IN /\ row.Has_Order <=> order_found
               /\ row.Has_Shipment <=> shipment_found
               /\ row.Complete_Match <=> (row.Has_Order /\ row.Has_Shipment)

\* The period invoices and the keys of the two lookup sheets.
PeriodInvoices == Invoices2017(tw_tables.invoices)

UniqueKeys ==
    /\ \A i, j \in DOMAIN tw_tables.sales_orders :
          tw_tables.sales_orders[i].SalesOrderID = tw_tables.sales_orders[j].SalesOrderID
              => i = j
    /\ \A i, j \in DOMAIN tw_tables.shipments :
          tw_tables.shipments[i].ShipID = tw_tables.shipments[j].ShipID => i = j

OrderFound(row) ==
    \E o \in Range(tw_tables.sales_orders) : o.SalesOrderID = row.SalesOrderID

ShipmentFound(row) ==
    OrderFound(row) /\ \E x \in Range(tw_tables.shipments) : x.ShipID = row.ShipID

\* The class the script gives a row: Complete_Match, the no_ship selection
\* (InvoicedNotShipped), and among the remaining exceptions NoOrder (neither
\* flag) and Other.
ClassOf(row) ==
    IF row.Complete_Match THEN "Complete_Match"
    ELSE IF row.Has_Order /\ ~row.Has_Shipment THEN "InvoicedNotShipped"
    ELSE IF ~row.Has_Order /\ ~row.Has_Shipment THEN "NoOrder"
    ELSE "Other"

\* The class the definitions of the classes give a row.
ClaimedClassOf(row) ==
    IF ShipmentFound(row) THEN "Complete_Match"
    ELSE IF OrderFound(row) THEN "InvoicedNotShipped"
    ELSE "NoOrder"

\* C11 (as claimed): with unique SalesOrderID and ShipID the script classifies
\* every period invoice once, NoOrder meaning no order found and
\* InvoicedNotShipped meaning order found and shipment missing; the counts of
\* the summary are those of the classes, complete + exceptions = total, and the
\* match rate is complete / total to a tenth of a percent.
C11_ClassesAndCounts ==
    (three_way.ran /\ UniqueKeys) =>
        LET rows == three_way.rows
            sm == three_way.summary
        IN /\ Len(rows) = Len(PeriodInvoices)
           /\ \A k \in DOMAIN rows :
                 /\ rows[k].InvoiceID = PeriodInvoices[k].InvoiceID
                 /\ ClassOf(rows[k]) = ClaimedClassOf(rows[k])
           /\ sm.total = Len(PeriodInvoices)
           /\ sm.complete =
                 Cardinality({k \in DOMAIN rows : ClaimedClassOf(rows[k]) = "Complete_Match"})
           /\ sm.no_shipment =
                 Cardinality({k \in DOMAIN rows : ClaimedClassOf(rows[k]) = "InvoicedNotShipped"})
           /\ sm.complete + sm.exceptions = sm.total
           /\ sm.total > 0 =>
                 /\ 2 * (sm.match_rate * sm.total - 1000 * sm.complete) <= sm.total
                 /\ 2 * (1000 * sm.complete - sm.match_rate * sm.total) <= sm.total

(***************************************************************************)
(* AgingAnalyzer._compare_aging_bucket.  A tolerance is a whole number of  *)
(* percent (tolerance = t / 100), a ratio is a pair num / den.             *)
(***************************************************************************)
MaxOurCustomers == 2
MaxClientRows == 2

CompareBucket == "90+"
CompareAmounts == {0, 1000, 1010, 49500, 50000}
ClientCustIDs == {1, 3}
TolerancePercents == {0, 1, 5}

\* our_data as the pivot lays it out: one row per customer, in CustID order.
OurBucketTables ==
    {[columns |-> {"CustID", CompareBucket, "Total"},
      rows |-> [i \in 1..n |-> [CustID |-> i, cells |-> [b \in {CompareBucket} |-> amt[i]],
                                Total |-> amt[i]]]] :
        n \in 0..MaxOurCustomers,
        amt \in [1..MaxOurCustomers -> CompareAmounts]}

ClientRowKey(r) == r.CustID * 100000 + r.cells[CompareBucket]

\* client_data after preprocessing: CustID and the bucket column, any number
\* of rows per customer; or a table without the bucket column.
ClientBucketTables ==
    {[columns |-> {"CustID", CompareBucket}, rows |-> t] :
        t \in {u \in SeqsUpTo({[CustID |-> c, cells |-> [b \in {CompareBucket} |-> a]] :
                                  c \in ClientCustIDs, a \in CompareAmounts},
                              MaxClientRows) :
                 \A i \in 1..(Len(u) - 1) : ClientRowKey(u[i]) <= ClientRowKey(u[i + 1])}}
    \cup {[columns |-> {"CustID"}, rows |-> << [CustID |-> 1, cells |-> <<>>] >>]}

\* data[bucket].sum()
RECURSIVE SumCells(_, _)
SumCells(rows, bucket) ==
    IF rows = <<>> THEN 0
    ELSE Head(rows).cells[bucket] + SumCells(Tail(rows), bucket)

\* abs(difference / client_total) if client_total != 0 else 0
DifferencePct(difference, client_total) ==
    IF client_total # 0 THEN [num |-> Abs(difference), den |-> Abs(client_total)]
    ELSE [num |-> 0, den |-> 1]

\* WithinTolerance with a strict comparison.
WithinTolerance_Strict(difference_pct, tolerance) ==
    difference_pct.num * 100 < tolerance * difference_pct.den

\* difference_pct <= tolerance
WithinTolerance(difference_pct, tolerance) ==
    difference_pct.num * 100 <= tolerance * difference_pct.den

\* pd.merge(ours, client, on="CustID", how="outer").fillna(0): the keys of
\* both sides in ascending order, every our row of a key paired with every
\* client row of the key, a side without the key counting 0.
MergedCustomers(our_data, client_data, bucket) ==
    LET keys == SortedSeq({r.CustID : r \in Range(our_data.rows)}
                          \cup {r.CustID : r \in Range(client_data.rows)})
        PairsOf(k) ==
            LET ours == SelectSeq(our_data.rows, LAMBDA r : r.CustID = k)
                theirs == SelectSeq(client_data.rows, LAMBDA r : r.CustID = k)
            IN IF theirs = <<>>
               THEN [i \in DOMAIN ours |->
                       [CustID |-> k, our_amount |-> ours[i].cells[bucket],
                        client_amount |-> 0]]
               ELSE IF ours = <<>>
               THEN [j \in DOMAIN theirs |->
                       [CustID |-> k, our_amount |-> 0,
                        client_amount |-> theirs[j].cells[bucket]]]
               ELSE [n \in 1..(Len(ours) * Len(theirs)) |->
                       [CustID |-> k,
                        our_amount |-> ours[((n - 1) \div Len(theirs)) + 1].cells[bucket],
                        client_amount |-> theirs[((n - 1) % Len(theirs)) + 1].cells[bucket]]]
    IN Concat([i \in DOMAIN keys |-> PairsOf(keys[i])])

\* ExceedsCustomerThreshold with an inclusive comparison.
ExceedsCustomerThreshold_Inclusive(cust_diff, tolerance) ==
    Abs(cust_diff) >= tolerance * 10

\* abs(cust_diff) > tolerance * 1000
ExceedsCustomerThreshold(cust_diff, tolerance) == Abs(cust_diff) > tolerance * 10

\* The rows of merged_data whose difference is significant.
CustomerDifferences(merged_data, tolerance) ==
    LET diffs == [i \in DOMAIN merged_data |->
                    [CustID |-> merged_data[i].CustID,
                     our_amount |-> merged_data[i].our_amount,
                     client_amount |-> merged_data[i].client_amount,
                     difference |-> merged_data[i].our_amount
                                    - merged_data[i].client_amount]]
    IN SelectSeq(diffs, LAMBDA d : ExceedsCustomerThreshold(d.difference, tolerance))

\* The result dict; has_error says that the "error" key was set.
compare_aging_bucket(our_data, client_data, bucket, tolerance) ==
    IF bucket \notin our_data.columns \/ bucket \notin client_data.columns
    THEN [bucket |-> bucket, agrees |-> FALSE, our_total |-> 0, client_total |-> 0,
          difference |-> 0, difference_pct |-> [num |-> 0, den |-> 1],
          customer_differences |-> <<>>, within_tolerance |-> FALSE,
          has_error |-> TRUE]
    ELSE LET our_total == SumCells(our_data.rows, bucket)
             client_total == SumCells(client_data.rows, bucket)
             difference == our_total - client_total
             difference_pct == DifferencePct(difference, client_total)
             within == WithinTolerance(difference_pct, tolerance)
             customer_diffs ==
                 CustomerDifferences(MergedCustomers(our_data, client_data, bucket),
                                     tolerance)
         IN [bucket |-> bucket, agrees |-> (customer_diffs = <<>>) /\ within,
             our_total |-> our_total, client_total |-> client_total,
             difference |-> difference, difference_pct |-> difference_pct,
             customer_differences |-> customer_diffs, within_tolerance |-> within,
             has_error |-> FALSE]

NoResult == [returned |-> FALSE]

InitCompareBucket ==
    /\ review_call \in {[our_data |-> o, client_data |-> c, bucket |-> CompareBucket,
                         tolerance |-> t] :
                          o \in OurBucketTables, c \in ClientBucketTables,
                          t \in TolerancePercents}
    /\ review_result = NoResult
    /\ IdleAging /\ IdleMerge /\ IdleBucket /\ IdleThreeWay

CallCompareBucket ==
    /\ ~review_result.returned
    /\ review_result' = [returned |-> TRUE,
                         result |-> compare_aging_bucket(
                                        review_call.our_data, review_call.client_data,
                                        review_call.bucket, review_call.tolerance)]
    /\ UNCHANGED <<review_call, aging_vars, merge_vars, bucket_vars, tw_vars>>

SpecCompareBucket == InitCompareBucket /\ [][CallCompareBucket]_vars

\* A compared bucket: the call returned and set no "error".
BucketCompared == review_result.returned /\ ~review_result.result.has_error

\* C12: for a compared bucket, difference = our_total - client_total,
\* difference_pct = |difference| / client_total (0 when client_total is 0) and
\* within_tolerance = (difference_pct <= tolerance); ours 50,000 against client
\* 49,500 at 1% is outside the tolerance, 49,500 against 49,500 is within.
C12_BucketTotals ==
    BucketCompared =>
        LET r == review_result.result
            ours == SumCells(review_call.our_data.rows, review_call.bucket)
            client == SumCells(review_call.client_data.rows, review_call.bucket)
        IN /\ r.our_total = ours /\ r.client_total = client
           /\ r.difference = ours - client
           /\ client = 0 => r.difference_pct.num = 0
           /\ client # 0 => /\ r.difference_pct.num = Abs(ours - client)
                            /\ r.difference_pct.den = Abs(client)
           /\ r.within_tolerance <=>
                 (r.difference_pct.num * 100
                     <= review_call.tolerance * r.difference_pct.den)
           /\ (ours = 50000 /\ client = 49500 /\ review_call.tolerance = 1)
                 => ~r.within_tolerance
           /\ (ours = 49500 /\ client = 49500 /\ review_call.tolerance = 1)
                 => r.within_tolerance

\* 50,000 against 49,500 at 1% has been compared and is outside the tolerance.
C12_Witness ==
    /\ BucketCompared
    /\ review_call.tolerance = 1
    /\ review_result.result.our_total = 50000
    /\ review_result.result.client_total = 49500
    /\ review_result.result.difference = 500
    /\ ~review_result.result.within_tolerance

\* The totals of the two sides with the sides exchanged.
SwappedWithinTolerance ==
    LET r == review_result.result
    IN WithinTolerance(DifferencePct(r.client_total - r.our_total, r.our_total),
                       review_call.tolerance)

\* C13 (as claimed): comparing ours = a against client = b gives the same
\* within_tolerance as comparing ours = b against client = a.
C13_Symmetric ==
    BucketCompared => (review_result.result.within_tolerance <=> SwappedWithinTolerance)

\* C14: customer_differences lists exactly the customer pairs of the outer
\* join whose |our amount - client amount| exceeds tolerance * 1000, a customer
\* present on one side only counting 0 on the other; and agrees is true exactly
\* when the list is empty and within_tolerance is true.
C14_CustomerDifferences ==
    BucketCompared =>
        LET r == review_result.result
            our == review_call.our_data
            client == review_call.client_data
            b == review_call.bucket
            OurAmounts(c) == {x.cells[b] : x \in {y \in Range(our.rows) : y.CustID = c}}
            ClientAmounts(c) ==
                {x.cells[b] : x \in {y \in Range(client.rows) : y.CustID = c}}
            OrZero(S) == IF S = {} THEN {0} ELSE S
            Customers == {x.CustID : x \in Range(our.rows)}
                         \cup {x.CustID : x \in Range(client.rows)}
            Pairs == {<<c, a, k>> \in Customers \X CompareAmounts \X CompareAmounts :
                        /\ a \in OrZero(OurAmounts(c))
                        /\ k \in OrZero(ClientAmounts(c))}
            Listed == {<<d.CustID, d.our_amount, d.client_amount>> :
                          d \in Range(r.customer_differences)}
        IN /\ Listed = {p \in Pairs : Abs(p[2] - p[3]) * 100
                                         > review_call.tolerance * 1000}
           /\ \A d \in Range(r.customer_differences) :
                 d.difference = d.our_amount - d.client_amount
           /\ r.agrees <=> (r.customer_differences = <<>> /\ r.within_tolerance)

\* A customer differing by exactly tolerance * 1000 is not listed, one on the
\* client side only is.
C14_Witness ==
    /\ BucketCompared
    /\ review_call.tolerance = 1
    /\ \E x \in Range(review_call.our_data.rows) :
          \E y \in Range(review_call.client_data.rows) :
              /\ x.CustID = y.CustID
              /\ x.cells[CompareBucket] = 1010 /\ y.cells[CompareBucket] = 1000
    /\ \E d \in Range(review_result.result.customer_differences) : d.CustID = 3
    /\ \A d \in Range(review_result.result.customer_differences) : d.CustID = 3

(***************************************************************************)
(* AgingAnalyzer.compare_with_client_aging on an analyzer whose tables     *)
(* hold at most one unpaid invoice for each of two customers.              *)
(***************************************************************************)
\* The invoice of a customer: its date (95, 75 or 45 days before the default
\* as-of date) and the TotalDue of its order.
ReviewInvoiceKinds ==
    {[InvoiceDate |-> 905, TotalDue |-> 4000],
     [InvoiceDate |-> 925, TotalDue |-> 1000],
     [InvoiceDate |-> 955, TotalDue |-> 6000]}

ReviewLoaderStates ==
    {[customer_invoices |->
          [i \in DOMAIN ks |-> [InvoiceID |-> i, CustID |-> i,
                                InvoiceDate |-> ks[i].InvoiceDate, IsPaid |-> FALSE]],
      has_sales_orders |-> TRUE,
      sales_orders |->
          [i \in DOMAIN ks |-> [InvoiceID |-> i, TotalDue |-> ks[i].TotalDue,
                                OrderDate |-> ks[i].InvoiceDate]]] :
        ks \in SeqsUpTo(ReviewInvoiceKinds, Cardinality(CustIDs))}

\* Column headers of a client file, as the characters they are written with.
Header_CustomerID == <<"C", "u", "s", "t", "o", "m", "e", "r", " ", "I", "D">>
Header_CustID == <<"C", "u", "s", "t", "I", "D">>
Header_cust_id == <<"c", "u", "s", "t", "-", "i", "d">>
Header_90 == <<"9", "0", "+">>
Header_Over90 == <<"O", "v", "e", "r", " ", "9", "0">>
Header_Current == <<"C", "u", "r", "r", "e", "n", "t">>
Header_31_60 == <<"3", "1", "-", "6", "0">>

\* The headers of a client table: the customer column, then the amount columns.
ClientHeaderSets ==
    {<<Header_CustomerID, Header_90>>,
     <<Header_CustID, Header_90>>,
     <<Header_cust_id, Header_Over90, Header_Current>>,
     <<Header_CustomerID, Header_31_60>>}

ClientAmounts == {0, 4000, 4010}

\* A row of a client table: the customer and the amount its amount columns hold.
ClientFileRows == {[id |-> c, amount |-> a] : c \in ClientCustIDs, a \in ClientAmounts}

ClientFileRowKey(r) == r.id * 100000 + r.amount

\* client_dataframe: None, or a table.
ClientDataFrames ==
    {[given |-> FALSE, headers |-> <<>>, rows |-> <<>>]}
    \cup {[given |-> TRUE, headers |-> h, rows |-> t] :
            h \in ClientHeaderSets,
            t \in {u \in SeqsUpTo(ClientFileRows, MaxClientRows) :
                     \A i \in 1..(Len(u) - 1) :
                         ClientFileRowKey(u[i]) < ClientFileRowKey(u[i + 1])}}

\* aging_buckets: None, or a list of bucket names.
BucketListArgs ==
    {[given |-> FALSE, list |-> <<>>]}
    \cup {[given |-> TRUE, list |-> l] :
            l \in {<<>>, <<"90+">>, <<"0-30", "90+">>, <<"31-60">>}}

\* str.lower()
UpperCase == <<"A", "B", "C", "D", "E", "F", "G", "H", "I", "J", "K", "L", "M",
               "N", "O", "P", "Q", "R", "S", "T", "U", "V", "W", "X", "Y", "Z">>
LowerCase == <<"a", "b", "c", "d", "e", "f", "g", "h", "i", "j", "k", "l", "m",
               "n", "o", "p", "q", "r", "s", "t", "u", "v", "w", "x", "y", "z">>

Lower(ch) ==
    IF \E i \in DOMAIN UpperCase : UpperCase[i] = ch
    THEN LowerCase[CHOOSE i \in DOMAIN UpperCase : UpperCase[i] = ch]
    ELSE ch

\* df.columns.str.lower().str.replace(" ", "_").str.replace("-", "_")
RECURSIVE NormalizeHeader(_)
NormalizeHeader(chars) ==
    IF chars = <<>> THEN ""
    ELSE LET ch == Lower(Head(chars))
         IN (IF ch = " " \/ ch = "-" THEN "_" ELSE ch) \o NormalizeHeader(Tail(chars))

\* column_mappings
column_mappings ==
    [k \in {"customer_id", "customerid", "customer", "cust_id"} |-> "CustID"]
    @@ [k \in {"total_due", "totaldue", "amount_due", "balance"} |-> "TotalDue"]
    @@ [k \in {"aging_90+", "aging_90", "over_90", "past_due_90", "current_90+"} |-> "90+"]
    @@ [k \in {"0-30_days", "0-30", "current"} |-> "0-30"]
    @@ [k \in {"31-60_days", "31-60"} |-> "31-60"]
    @@ [k \in {"61-90_days", "61-90"} |-> "61-90"]

\* The name of a column after df.rename(columns=column_mappings).
ResolveHeader(chars) ==
    LET name == NormalizeHeader(chars)
    IN IF name \in DOMAIN column_mappings THEN column_mappings[name] ELSE name

\* HasCustID when the check of the CustID column is always passed.
HasCustID_Unchecked(columns) == TRUE

\* "CustID" in df.columns
HasCustID(columns) == "CustID" \in columns

\* _preprocess_client_data: raised says that ValueError("Client data missing
\* CustID column") was raised; else the table with its columns renamed.
preprocess_client_data(client_data) ==
    LET names == [i \in DOMAIN client_data.headers |->
                     ResolveHeader(client_data.headers[i])]
        columns == Range(names)
        amount_columns == {names[i] : i \in 2..Len(names)}
    IN IF ~HasCustID(columns)
       THEN [raised |-> TRUE, columns |-> columns, rows |-> <<>>]
       ELSE [raised |-> FALSE, columns |-> columns,
             rows |-> [i \in DOMAIN client_data.rows |->
                         [CustID |-> client_data.rows[i].id,
                          cells |-> [b \in amount_columns |->
                                        client_data.rows[i].amount]]]]

\* The buckets of the list that are columns of our summary, in list order.
ComparedBuckets(our_summary, aging_buckets) ==
    SelectSeq(aging_buckets, LAMBDA b : b \in our_summary.columns)

RECURSIVE SumOver(_, _)
SumOver(S, f) ==
    IF S = {} THEN 0
    ELSE LET x == CHOOSE y \in S : TRUE IN f[x] + SumOver(S \ {x}, f)

\* _calculate_comparison_metrics
calculate_comparison_metrics(comparison_results) ==
    LET bs == DOMAIN comparison_results
        total_client == SumOver(bs, [b \in bs |-> comparison_results[b].client_total])
        total_difference == SumOver(bs, [b \in bs |-> comparison_results[b].difference])
    IN [total_buckets_compared |-> Cardinality(bs),
        agreed_buckets |-> Cardinality({b \in bs : comparison_results[b].agrees}),
        buckets_within_tolerance |->
            Cardinality({b \in bs : comparison_results[b].within_tolerance}),
        total_our_amount |-> SumOver(bs, [b \in bs |-> comparison_results[b].our_total]),
        total_client_amount |-> total_client,
        total_difference |-> total_difference,
        overall_difference_pct |-> DifferencePct(total_difference, total_client)]

NoMetrics ==
    [total_buckets_compared |-> 0, agreed_buckets |-> 0, buckets_within_tolerance |-> 0,
     total_our_amount |-> 0, total_client_amount |-> 0, total_difference |-> 0,
     overall_difference_pct |-> [num |-> 0,den |-> 1]]

\* OverallAgrees without the test that some bucket was compared.
OverallAgrees_Vacuous(total_agrees, total_compared) == total_agrees = total_compared

\* total_agrees == total_compared if total_compared > 0 else False
OverallAgrees(total_agrees, total_compared) ==
    IF total_compared > 0 THEN total_agrees = total_compared ELSE FALSE

\* The returned dict.  outcome names the return path: "not_performed" (no
\* stored report), "no_client_data", "error" (an exception was caught and
\* "Error during comparison" recorded) or "compared"; has_metrics says that
\* "metrics" was filled.  The detailed_comparison frame and the wording of the
\* recommendations are left out.
compare_with_client_aging(report, client_dataframe, aging_buckets_arg, tolerance) ==
    LET empty == [outcome |-> "compared", agrees |-> FALSE, differences |-> <<>>,
                  has_metrics |-> FALSE, metrics |-> NoMetrics]
        aging_buckets == IF aging_buckets_arg.given THEN aging_buckets_arg.list
                         ELSE <<"90+">>
        client_data == preprocess_client_data(client_dataframe)
        compared == ComparedBuckets(report.summary, aging_buckets)
        comparison_results ==
            [b \in Range(compared) |->
                compare_aging_bucket(report.summary, client_data, b, tolerance)]
        total_agrees ==
            Len(SelectSeq(compared, LAMBDA b : comparison_results[b].agrees))
    IN IF report.is_none THEN [empty EXCEPT !.outcome = "not_performed"]
       ELSE IF ~client_dataframe.given THEN [empty EXCEPT !.outcome = "no_client_data"]
       ELSE IF client_data.raised THEN [empty EXCEPT !.outcome = "error"]
       ELSE [outcome |-> "compared",
             agrees |-> OverallAgrees(total_agrees, Len(compared)),
             differences |-> comparison_results,
             has_metrics |-> TRUE,
             metrics |-> calculate_comparison_metrics(comparison_results)]

InitClientCompare ==
    /\ dataframes \in ReviewLoaderStates
    /\ pandas_observed \in BOOLEAN
    /\ pandas_datetime_unit = "ns"
    /\ aging_report = NoReport
    /\ last_call = NoCall
    /\ review_call = <<>>
    /\ review_result = NoResult
    /\ IdleMerge /\ IdleBucket /\ IdleThreeWay

\* ReportAfterReview with the over-90 table emptied by the read.
ReportAfterReview_Consumed(report) == [report EXCEPT !.over_90_days = <<>>]

\* self.aging_report after compare_with_client_aging,
\* assess_allowance_reasonableness or validate_analysis_results: they read its
\* tables (column selections, sums, merges into new frames) and assign nothing.
ReportAfterReview(report) == report

CallCompareWithClient(client_dataframe, aging_buckets, tolerance) ==
    /\ review_call' = [client_dataframe |-> client_dataframe,
                       aging_buckets |-> aging_buckets, tolerance |-> tolerance]
    /\ review_result' = [returned |-> TRUE,
                         result |-> compare_with_client_aging(
                                        aging_report, client_dataframe,
                                        aging_buckets, tolerance)]
    /\ aging_report' = ReportAfterReview(aging_report)
    /\ UNCHANGED <<dataframes, pandas_observed, pandas_datetime_unit, last_call,
                   merge_vars, bucket_vars, tw_vars>>

\* Any number of analyses, then one comparison.
NextClientCompare ==
    /\ ~review_result.returned
    /\ \/ perform_aging_analysis(NaN)
       \/ \E c \in ClientDataFrames, b \in BucketListArgs :
              CallCompareWithClient(c, b, 1)

SpecClientCompare == InitClientCompare /\ [][NextClientCompare]_vars

\* A comparison that ran to the end.
Compared == review_result.returned /\ review_result.result.outcome = "compared"

\* The buckets the call was asked for.
RequestedBuckets ==
    IF review_call.aging_buckets.given THEN Range(review_call.aging_buckets.list)
    ELSE {"90+"}

\* The columns of the client table of the call, renamed.
ClientColumns == {ResolveHeader(h) : h \in Range(review_call.client_dataframe.headers)}

\* What C15 says of the buckets that are compared and of those that are not.
ComparedBucketsAsClaimed ==
    LET r == review_result.result
    IN /\ DOMAIN r.differences = RequestedBuckets \cap aging_report.summary.columns
       /\ \A b \in DOMAIN r.differences :
             b \notin ClientColumns => (r.differences[b].has_error
                                        /\ ~r.differences[b].agrees)

\* C15 (as claimed): the overall agrees flag is true if and only if every
\* compared bucket agrees; a requested bucket absent from the client table is
\* compared and disagrees, one absent from our summary is not compared.
C15_AgreesIffAllComparedAgree ==
    Compared =>
        /\ ComparedBucketsAsClaimed
        /\ review_result.result.agrees
              <=> \A b \in DOMAIN review_result.result.differences :
                      review_result.result.differences[b].agrees

\* C15 (amended): the overall agrees flag is true if and only if at least one
\* bucket was compared and every compared bucket agrees.
C15_AgreesIffSomeAndAllAgree ==
    Compared =>
        /\ ComparedBucketsAsClaimed
        /\ review_result.result.agrees
              <=> /\ DOMAIN review_result.result.differences # {}
                  /\ \A b \in DOMAIN review_result.result.differences :
                        review_result.result.differences[b].agrees

\* Two buckets were compared, one agreeing and one not.
C15_Witness ==
    /\ Compared
    /\ ~review_result.result.agrees
    /\ \E a, b \in DOMAIN review_result.result.differences :
          /\ review_result.result.differences[a].agrees
          /\ ~review_result.result.differences[b].agrees
          /\ ~review_result.result.differences[b].has_error

AllowanceInvoiceKinds ==
    {[InvoiceDate |-> 905, TotalDue |-> 4000],
     [InvoiceDate |-> 905, TotalDue |-> 3600],
     [InvoiceDate |-> 905, TotalDue |-> 3800],
     [InvoiceDate |-> 925, TotalDue |-> 1000],
     [InvoiceDate |-> 955, TotalDue |-> 6000]}

AllowanceLoaderStates ==
    {[customer_invoices |->
          [i \in DOMAIN ks |-> [InvoiceID |-> i, CustID |-> i,
                                InvoiceDate |-> ks[i].InvoiceDate, IsPaid |-> FALSE]],
      has_sales_orders |-> TRUE,
      sales_orders |->
          [i \in DOMAIN ks |-> [InvoiceID |-> i, TotalDue |-> ks[i].TotalDue,
                                OrderDate |-> ks[i].InvoiceDate]]] :
        ks \in SeqsUpTo(AllowanceInvoiceKinds, Cardinality(CustIDs))}

ClientAllowances == {3000, 3250}

\* aging_buckets: None, or a list of bucket names.
AllowanceBucketArgs ==
    {[given |-> FALSE, list |-> <<>>]}
    \cup {[given |-> TRUE, list |-> l] :
            l \in {<<"90+">>, <<"31-60", "61-90", "90+">>}}

\* allowance_percentages when the caller passes None.
DefaultAllowancePercentages == [b \in {"61-90"} |-> 25] @@ [b \in {"90+"} |-> 75]

\* allowance_percentages: None, or a dict.
AllowancePercentageArgs ==
    {[given |-> FALSE, dict |-> <<>>],
     [given |-> TRUE, dict |-> [b \in {"31-60"} |-> 10] @@ [b \in {"90+"} |-> 50]]}

\* comparison_data: None, a dict without metrics (a comparison that did not
\* run), or a dict with the agrees flag and metrics.overall_difference_pct.
ComparisonDataArgs ==
    {[given |-> FALSE, has_metrics |-> FALSE, agrees |-> FALSE,
      overall_difference_pct |-> [num |-> 0, den |-> 1]],
     [given |-> TRUE, has_metrics |-> FALSE, agrees |-> FALSE,
      overall_difference_pct |-> [num |-> 0, den |-> 1]]}
    \cup {[given |-> TRUE, has_metrics |-> TRUE, agrees |-> a,
           overall_difference_pct |-> [num |-> n, den |-> 100]] :
            a \in BOOLEAN, n \in {0, 2, 3, 5, 6}}

\* BucketPercentage with a missing bucket counted in full.
BucketPercentage_Full(allowance_percentages, bucket) ==
    IF bucket \in DOMAIN allowance_percentages THEN allowance_percentages[bucket] ELSE 100

\* allowance_percentages.get(bucket, 0)
BucketPercentage(allowance_percentages, bucket) ==
    IF bucket \in DOMAIN allowance_percentages THEN allowance_percentages[bucket] ELSE 0

\* recommended_by_bucket: the requested buckets that are columns of summary.
RecommendedByBucket(summary, aging_buckets, allowance_percentages) ==
    [b \in {x \in Range(aging_buckets) : x \in summary.columns} |->
        [amount |-> SumCells(summary.rows, b),
         percentage |-> BucketPercentage(allowance_percentages, b),
         allowance |-> SumCells(summary.rows, b)
                       * BucketPercentage(allowance_percentages, b)]]

\* total_recommended: one addition per list entry that is a column of summary.
RECURSIVE TotalRecommended(_, _, _)
TotalRecommended(summary, aging_buckets, allowance_percentages) ==
    IF aging_buckets = <<>> THEN 0
    ELSE (IF Head(aging_buckets) \in summary.columns
          THEN SumCells(summary.rows, Head(aging_buckets))
               * BucketPercentage(allowance_percentages, Head(aging_buckets))
          ELSE 0)
         + TotalRecommended(summary, Tail(aging_buckets), allowance_percentages)

\* The assessment after the comparison step (lines 667-684).
ComparisonAssessment(comparison_data) ==
    IF comparison_data.given /\ comparison_data.has_metrics /\ ~comparison_data.agrees
    THEN IF comparison_data.overall_difference_pct.num * 100
               > 5 * comparison_data.overall_difference_pct.den
         THEN [assessment |-> "questionable", severity |-> "high"]
         ELSE IF comparison_data.overall_difference_pct.num * 100
                    > 2 * comparison_data.overall_difference_pct.den
         THEN [assessment |-> "requires_review", severity |-> "medium"]
         ELSE [assessment |-> "reasonable", severity |-> "none"]
    ELSE [assessment |-> "reasonable", severity |-> "none"]

\* ExceedsShare with an inclusive comparison.
ExceedsShare_Inclusive(difference, client_allowance, percent) ==
    Abs(difference) >= client_allowance * percent

\* abs(difference) > client_allowance * (percent / 100), difference in hundredths.
ExceedsShare(difference, client_allowance, percent) ==
    Abs(difference) > client_allowance * percent

\* The standard reasonableness check (lines 695-699) applied to the
\* assessment reached so far.
StandardAssessment(so_far, difference, client_allowance) ==
    IF ExceedsShare(difference, client_allowance, 10) THEN "questionable"
    ELSE IF ExceedsShare(difference, client_allowance, 5) THEN "requires_review"
    ELSE so_far

\* The returned dict (the factors, which are texts, are left out).
assess_allowance_reasonableness(report, client_allowance, aging_buckets_arg, allowance_percentages_arg, comparison_data) ==
    LET aging_buckets == IF aging_buckets_arg.given THEN aging_buckets_arg.list
                         ELSE <<"61-90", "90+">>
        allowance_percentages ==
            IF allowance_percentages_arg.given THEN allowance_percentages_arg.dict
            ELSE DefaultAllowancePercentages
        total_recommended ==
            TotalRecommended(report.summary, aging_buckets, allowance_percentages)
        difference == client_allowance * 100 - total_recommended
        compared == ComparisonAssessment(comparison_data)
    IN IF report.is_none
       THEN [performed |-> FALSE, client_allowance |-> client_allowance,
             recommended_allowance |-> 0, difference |-> 0,
             assessment |-> "reasonable", bucket_breakdown |-> <<>>,
             severity |-> "none"]
       ELSE [performed |-> TRUE, client_allowance |-> client_allowance,
             recommended_allowance |-> total_recommended,
             difference |-> difference,
             assessment |-> StandardAssessment(compared.assessment, difference,
                                               client_allowance),
             bucket_breakdown |->
                 RecommendedByBucket(report.summary, aging_buckets,
                                     allowance_percentages),
             severity |-> compared.severity]

InitAllowance ==
    /\ dataframes \in AllowanceLoaderStates
    /\ pandas_observed \in BOOLEAN
    /\ pandas_datetime_unit = "ns"
    /\ aging_report = NoReport
    /\ last_call = NoCall
    /\ review_call = <<>>
    /\ review_result = NoResult
    /\ IdleMerge /\ IdleBucket /\ IdleThreeWay

CallAssessAllowance(client_allowance, aging_buckets, allowance_percentages, comparison_data) ==
    /\ review_call' = [client_allowance |-> client_allowance,
                       aging_buckets |-> aging_buckets,
                       allowance_percentages |-> allowance_percentages,
                       comparison_data |-> comparison_data]
    /\ review_result' = [returned |-> TRUE,
                         result |-> assess_allowance_reasonableness(
                                        aging_report, client_allowance, aging_buckets,
                                        allowance_percentages, comparison_data)]
    /\ aging_report' = ReportAfterReview(aging_report)
    /\ UNCHANGED <<dataframes, pandas_observed, pandas_datetime_unit, last_call,
                   merge_vars, bucket_vars, tw_vars>>

\* Any number of analyses, then one assessment.
NextAllowance ==
    /\ ~review_result.returned
    /\ \/ perform_aging_analysis(NaN)
       \/ \E c \in ClientAllowances, b \in AllowanceBucketArgs,
             p \in AllowancePercentageArgs, d \in ComparisonDataArgs :
              CallAssessAllowance(c, b, p, d)

SpecAllowance == InitAllowance /\ [][NextAllowance]_vars

\* An assessment made on a stored report.
Assessed == review_result.returned /\ review_result.result.performed

\* The total of a bucket column of the stored summary.
BucketTotal(b) ==
    IF b \in aging_report.summary.columns THEN SumCells(aging_report.summary.rows, b)
    ELSE 0

\* The percentage the call applies to a bucket.
AppliedPercentage(b) ==
    LET p == IF review_call.allowance_percentages.given
             THEN review_call.allowance_percentages.dict
             ELSE [x \in {"61-90"} |-> 25] @@ [x \in {"90+"} |-> 75]
    IN IF b \in DOMAIN p THEN p[b] ELSE 0

\* C17: with a stored report, recommended_allowance is the sum over the
\* requested buckets that are columns of summary of bucket total x percentage
\* (0 without a percentage), and difference = client_allowance - recommended;
\* with the defaults only 61-90 (25%) and 90+ (75%) contribute, so 31-60 =
\* 6000, 61-90 = 0, 90+ = 4000 give 3000.
C17_RecommendedAllowance ==
    Assessed =>
        LET r == review_result.result
            requested == IF review_call.aging_buckets.given
                         THEN Range(review_call.aging_buckets.list)
                         ELSE {"61-90", "90+"}
            present == requested \cap aging_report.summary.columns
            expected == SumOver(present,
                                [b \in present |-> BucketTotal(b) * AppliedPercentage(b)])
        IN /\ r.recommended_allowance = expected
           /\ r.difference = review_call.client_allowance * 100 - expected
           /\ DOMAIN r.bucket_breakdown = present
           /\ (~review_call.aging_buckets.given
               /\ ~review_call.allowance_percentages.given)
                 => r.recommended_allowance
                       = BucketTotal("61-90") * 25 + BucketTotal("90+") * 75

\* The default call on bucket totals 31-60 = 6000, 61-90 = 0, 90+ = 4000
\* recommends 3000.
C17_Witness ==
    /\ Assessed
    /\ ~review_call.aging_buckets.given
    /\ ~review_call.allowance_percentages.given
    /\ BucketTotal("31-60") = 6000
    /\ BucketTotal("61-90") = 0
    /\ BucketTotal("90+") = 4000
    /\ review_result.result.recommended_allowance = 3000 * 100

\* The call had no comparison data to use.
NoComparison ==
    ~(review_call.comparison_data.given /\ review_call.comparison_data.has_metrics)

\* The class of the allowance test alone, |difference| in hundredths.
AllowanceOnlyClass(difference, client_allowance) ==
    IF Abs(difference) > 10 * client_allowance THEN "questionable"
    ELSE IF Abs(difference) > 5 * client_allowance THEN "requires_review"
    ELSE "reasonable"

\* C18: without comparison data the assessment is 'questionable' if
\* |difference| > 10% of client_allowance, else 'requires_review' if > 5%, else
\* 'reasonable'; exactly 10% gives 'requires_review', exactly 5% 'reasonable'.
C18_AllowanceClasses ==
    (Assessed /\ NoComparison) =>
        LET r == review_result.result
        IN /\ r.assessment = AllowanceOnlyClass(r.difference, r.client_allowance)
           /\ Abs(r.difference) = 10 * r.client_allowance
                 => r.assessment = "requires_review"
           /\ Abs(r.difference) = 5 * r.client_allowance
                 => r.assessment = "reasonable"

\* A difference of exactly 10% of the client allowance was assessed.
C18_Witness ==
    /\ Assessed /\ NoComparison
    /\ review_result.result.client_allowance = 3000
    /\ review_result.result.difference = 300 * 100
    /\ review_result.result.assessment = "requires_review"

\* The order of the classes by severity.
Severity(class) ==
    IF class = "questionable" THEN 2 ELSE IF class = "requires_review" THEN 1 ELSE 0

\* The comparison trigger of C19.
ComparisonTrigger(comparison_data) ==
    IF comparison_data.overall_difference_pct.num * 100
          > 5 * comparison_data.overall_difference_pct.den THEN "questionable"
    ELSE IF comparison_data.overall_difference_pct.num * 100
               > 2 * comparison_data.overall_difference_pct.den THEN "requires_review"
    ELSE "reasonable"

\* C19 (as claimed): with comparison data the assessment is the more severe of
\* the allowance-only class and the comparison trigger; an overall
\* disagreement above 5% always yields 'questionable'.
C19_MoreSevereOfBoth ==
    (Assessed /\ ~NoComparison /\ ~review_call.comparison_data.agrees) =>
        LET r == review_result.result
            a == AllowanceOnlyClass(r.difference, r.client_allowance)
            t == ComparisonTrigger(review_call.comparison_data)
        IN Severity(r.assessment) = IF Severity(a) >= Severity(t) THEN Severity(a)
                                    ELSE Severity(t)

(***************************************************************************)
(* The totals check of validate_analysis_results on the stored report.     *)
(***************************************************************************)
\* The sum of the bucket cells of every row of the stored summary.
SummaryBucketSum ==
    LET rows == aging_report.summary.rows
        cols == aging_report.summary.columns
        cells == (DOMAIN rows) \X cols
    IN SumOver(cells, [p \in cells |-> rows[p[1]].cells[p[2]]])

\* C20 (as claimed): for every stored report whose summary bucket totals
\* differ from the TotalDue of detailed by more than 0.01, an empty summary
\* with a non-empty detailed included, validate_analysis_results returns
\* is_valid = false.
C20_TotalsViolationDetected ==
    (/\ ~aging_report.is_none
     /\ Abs(SummaryBucketSum - SumTotalDue(aging_report.detailed)) > 0)
        => ~validate_analysis_results(aging_report).is_valid

(***************************************************************************)
(* UMDDataLoader.clean_data_types on customer_invoices.  The sheet is read *)
(* with dtype=str, so a PaidDate cell is the text of a date, given here by *)
(* its year and its month and day, or is blank.                            *)
(***************************************************************************)
MaxRawInvoices == 3

\* A blank cell, and the NaT a date column holds for it.
NaT == [year |-> NaN, month_day |-> "NaT"]

\* The PaidDate cells of the sheet: the unpaid sentinel 9/9/9999, another date
\* of year 9999, a real paid date, a blank.
SentinelDate == [year |-> 9999, month_day |-> "09-09"]
RawPaidDates ==
    {SentinelDate, [year |-> 9999, month_day |-> "12-31"],
     [year |-> 2017, month_day |-> "05-03"], NaT}

\* customer_invoices as load_all_files stores it (an empty sheet is not stored).
RawInvoiceTables ==
    UNION {[1..n -> {[PaidDate |-> d] : d \in RawPaidDates}] : n \in 1..MaxRawInvoices}

\* The last year a datetime64[ns] value can hold (pandas.Timestamp.max).
MaxNsYear == 2262

\* pd.to_datetime(cell, errors="coerce"): a date the resolution cannot hold
\* becomes NaT.
to_datetime(cell, unit) ==
    IF cell = NaT THEN NaT
    ELSE IF unit = "ns" /\ cell.year > MaxNsYear THEN NaT
    ELSE cell

\* Series.astype(str) of a date column whose times are all midnight.
DateAsStr(d) == IF d = NaT THEN "NaT" ELSE ToString(d.year) \o "-" \o d.month_day

\* The date loop converts PaidDate (line 290); then
\* df["IsPaid"] = df["PaidDate"].astype(str) != "9999-09-09" (line 299).
IsPaidFlag(raw, unit) == DateAsStr(to_datetime(raw, unit)) # "9999-09-09"

\* Lines 300-302: converted again, and a date of year 9999 replaced by NaT.
CleanPaidDate(raw, unit) ==
    LET d == to_datetime(to_datetime(raw, unit), unit)
    IN IF d # NaT /\ d.year = 9999 THEN NaT ELSE d

\* The customer_invoices part of clean_data_types.
clean_customer_invoices(df, unit) ==
    [i \in DOMAIN df |-> [PaidDate |-> CleanPaidDate(df[i].PaidDate, unit),
                          IsPaid |-> IsPaidFlag(df[i].PaidDate, unit)]]

InitLoader ==
    /\ dataframes \in {[cleaned |-> FALSE, raw_invoices |-> t, customer_invoices |-> t] :
                          t \in RawInvoiceTables}
    /\ pandas_datetime_unit \in {"ns", "us"}
    /\ pandas_observed = FALSE
    /\ aging_report = NoReport
    /\ last_call = NoCall
    /\ IdleMerge /\ IdleBucket /\ IdleThreeWay /\ IdleReview

\* raw_invoices keeps the sheet as it was loaded, for reference.
clean_data_types ==
    /\ ~dataframes.cleaned
    /\ dataframes' = [cleaned |-> TRUE, raw_invoices |-> dataframes.raw_invoices,
                      customer_invoices |->
                          clean_customer_invoices(dataframes.customer_invoices,
                                                  pandas_datetime_unit)]
    /\ UNCHANGED <<pandas_observed, pandas_datetime_unit, aging_report, last_call,
                   merge_vars, bucket_vars, tw_vars, review_vars>>

SpecLoader == InitLoader /\ [][clean_data_types]_vars

\* C21 (as claimed): after clean_data_types every invoice whose raw PaidDate
\* is the year-9999 sentinel has IsPaid = false and every invoice with a real
\* paid date has IsPaid = true.
C21_SentinelMeansUnpaid ==
    dataframes.cleaned =>
        \A i \in DOMAIN dataframes.customer_invoices :
            LET raw == dataframes.raw_invoices[i].PaidDate
            IN /\ raw = SentinelDate => ~dataframes.customer_invoices[i].IsPaid
               /\ (raw # NaT /\ raw.year # 9999)
                     => dataframes.customer_invoices[i].IsPaid

(***************************************************************************)
(* CreditAnalyzer.analyze_balance_vs_credit_limit over the loader's        *)
(* customer_invoices, sales_orders and customer_master.                    *)
(***************************************************************************)
MaxBalanceInvoices == 2
MaxBalanceOrders == 2

CredLimits == {0, 150}
BalanceAmounts == {100, 250}
\* InvoiceIDs of sales_orders rows; 9 is the InvoiceID of no invoice.
BalanceOrderIDs == {1, 2, 9}

\* customer_invoices after cleaning: InvoiceID is unique, rows in InvoiceID order.
BalanceInvoiceTables ==
    UNION {{t \in [1..n -> [InvoiceID : 1..n, CustID : CustIDs, IsPaid : BOOLEAN]] :
                \A i \in 1..n : t[i].InvoiceID = i} : n \in 1..MaxBalanceInvoices}

\* The columns of sales_orders the analysis reads; two order rows may agree
\* on them.  A loaded table is never empty (load_all_files).
BalanceOrderTables ==
    {t \in SeqsUpTo([InvoiceID : BalanceOrderIDs, TotalDue : BalanceAmounts],
                    MaxBalanceOrders) :
        /\ t # <<>>
        /\ \A i \in 1..(Len(t) - 1) : OrderKey(t[i]) <= OrderKey(t[i + 1])}

\* customer_master: one row per customer, not every customer listed.
CustomerMasterTables ==
    {t \in SeqsUpTo([CustID : CustIDs, CredLimit : CredLimits], Cardinality(CustIDs)) :
        /\ t # <<>>
        /\ \A i \in 1..(Len(t) - 1) : t[i].CustID < t[i + 1].CustID}

BalanceLoaderStates ==
    {[customer_invoices |-> inv, has_sales_orders |-> TRUE, sales_orders |-> so,
      has_customer_master |-> TRUE, customer_master |-> cm] :
        inv \in BalanceInvoiceTables, so \in BalanceOrderTables,
        cm \in CustomerMasterTables}
    \cup {[customer_invoices |-> inv, has_sales_orders |-> FALSE, sales_orders |-> <<>>,
           has_customer_master |-> TRUE, customer_master |-> cm] :
        inv \in BalanceInvoiceTables, cm \in CustomerMasterTables}
    \cup {[customer_invoices |-> inv, has_sales_orders |-> FALSE, sales_orders |-> <<>>,
           has_customer_master |-> FALSE, customer_master |-> <<>>] :
        inv \in BalanceInvoiceTables}

\* groupby("CustID").agg({"InvoiceID": "count"}): rows with a missing CustID
\* are dropped, groups come in CustID order.
CountByCustomer(rows) ==
    LET custs == SortedSeq({rows[i].CustID : i \in DOMAIN rows} \ {NaN})
    IN [k \in DOMAIN custs |->
          [CustID |-> custs[k],
           InvoiceCount |-> Cardinality({i \in DOMAIN rows :
                                /\ rows[i].CustID = custs[k]
                                /\ rows[i].InvoiceID # NaN})]]

\* groupby("CustID").agg({"InvoiceID": "count", "TotalDue": "sum"})
SumByCustomer(rows) ==
    LET counts == CountByCustomer(rows)
    IN [k \in DOMAIN counts |->
          [CustID |-> counts[k].CustID,
           InvoiceCount |-> counts[k].InvoiceCount,
           TotalBalance |-> SumTotalDue(SelectSeq(rows,
                                LAMBDA r : r.CustID = counts[k].CustID))]]

\* merge_diag["merge_rate"] > 0.5
UseAmounts(rate) == rate.num * 2 > rate.den

\* Lines 400-467: customer_balances and the invoice_amount_merge diagnostics.
CustomerBalances(unpaid_invoices, has_sales_orders, sales_orders) ==
    LET counts == CountByCustomer(unpaid_invoices)
        count_only == [k \in DOMAIN counts |->
                         [CustID |-> counts[k].CustID,
                          InvoiceCount |-> counts[k].InvoiceCount,
                          TotalBalance |-> 0]]
        left == [columns |-> {"InvoiceID", "CustID"},
                 rows |-> [i \in DOMAIN unpaid_invoices |->
                             [InvoiceID |-> unpaid_invoices[i].InvoiceID,
                              CustID |-> unpaid_invoices[i].CustID]]]
        right == [columns |-> {"InvoiceID", "TotalDue"},
                  rows |-> drop_duplicates(
                             [j \in DOMAIN sales_orders |->
                                [InvoiceID |-> sales_orders[j].InvoiceID,
                                 TotalDue |-> sales_orders[j].TotalDue]])]
        amounts == validate_and_merge(left, right, "InvoiceID", "InvoiceID", "left",
                                      "_left", "_right", 70)
    IN IF ~has_sales_orders
       THEN [rows |-> count_only, invoice_amount_merge |-> NoMergeResult]
       ELSE [rows |-> IF /\ "TotalDue" \in amounts.merged.columns
                         /\ UseAmounts(amounts.diagnostics.merge_rate)
                      THEN SumByCustomer(amounts.merged.rows)
                      ELSE count_only,
             invoice_amount_merge |-> amounts]

\* Lines 469-501: the credit limits joined on, a missing limit counting 0.
\* CreditUtilization is the fraction num/den.
WithCreditLimits(customer_balances, customer_master) ==
    LET joined == validate_and_merge(
                      [columns |-> {"CustID", "InvoiceCount", "TotalBalance"},
                       rows |-> customer_balances],
                      [columns |-> {"CustID", "CredLimit"}, rows |-> customer_master],
                      "CustID", "CustID", "left", "_left", "_right", 80)
        rows == joined.merged.rows
        Limit(r) == IF "CredLimit" \in joined.merged.columns
                    THEN Amount(r.CredLimit) ELSE 0
    IN [rows |-> [i \in DOMAIN rows |->
                    [CustID |-> rows[i].CustID,
                     InvoiceCount |-> rows[i].InvoiceCount,
                     TotalBalance |-> rows[i].TotalBalance,
                     CredLimit |-> Limit(rows[i]),
                     CreditUtilization |->
                         IF Limit(rows[i]) > 0
                         THEN [num |-> rows[i].TotalBalance, den |-> Limit(rows[i])]
                         ELSE [num |-> 0, den |-> 1],
                     ExceedsLimit |-> rows[i].TotalBalance > Limit(rows[i])]],
        credit_limit_merge |-> joined]

\* What the call does: raises ValueError without customer_master, returns an
\* empty frame without unpaid invoices, else returns the balance analysis.
BalanceAnalysis(df) ==
    LET unpaid_invoices == SelectSeq(df.customer_invoices, LAMBDA r : ~r.IsPaid)
        balances == CustomerBalances(unpaid_invoices, df.has_sales_orders,
                                     df.sales_orders)
        limited == WithCreditLimits(balances.rows, df.customer_master)
    IN IF ~df.has_customer_master
       THEN [returned |-> TRUE, outcome |-> "raised", balance_analysis |-> <<>>,
             invoice_amount_merge |-> NoMergeResult,
             credit_limit_merge |-> NoMergeResult]
       ELSE IF unpaid_invoices = <<>>
       THEN [returned |-> TRUE, outcome |-> "empty", balance_analysis |-> <<>>,
             invoice_amount_merge |-> NoMergeResult,
             credit_limit_merge |-> NoMergeResult]
       ELSE [returned |-> TRUE, outcome |-> "analyzed",
             balance_analysis |-> limited.rows,
             invoice_amount_merge |-> balances.invoice_amount_merge,
             credit_limit_merge |-> limited.credit_limit_merge]

InitBalance ==
    /\ dataframes \in BalanceLoaderStates
    /\ pandas_observed = FALSE
    /\ pandas_datetime_unit = "ns"
    /\ aging_report = NoReport
    /\ last_call = NoCall
    /\ review_call = <<>>
    /\ review_result = NoResult
    /\ IdleMerge /\ IdleBucket /\ IdleThreeWay

analyze_balance_vs_credit_limit ==
    /\ ~review_result.returned
    /\ review_result' = BalanceAnalysis(dataframes)
    /\ UNCHANGED <<review_call, aging_vars, merge_vars, bucket_vars, tw_vars>>

SpecBalance == InitBalance /\ [][analyze_balance_vs_credit_limit]_vars

\* The unpaid invoices of the loader, and those of them whose InvoiceID is
\* the InvoiceID of some sales_orders row.
BalanceUnpaid == SelectSeq(dataframes.customer_invoices, LAMBDA r : ~r.IsPaid)

BalanceMatched ==
    {i \in DOMAIN BalanceUnpaid :
        \E j \in DOMAIN dataframes.sales_orders :
            dataframes.sales_orders[j].InvoiceID = BalanceUnpaid[i].InvoiceID}

\* The distinct (InvoiceID, TotalDue) amounts matched by the unpaid invoices
\* of customer c, summed.
MatchedTotalDue(c) ==
    LET amounts == {<<BalanceUnpaid[i].InvoiceID, dataframes.sales_orders[j].TotalDue>> :
                        i \in {i \in DOMAIN BalanceUnpaid : BalanceUnpaid[i].CustID = c},
                        j \in DOMAIN dataframes.sales_orders}
        matched == {p \in amounts :
                        \E j \in DOMAIN dataframes.sales_orders :
                            /\ dataframes.sales_orders[j].InvoiceID = p[1]
                            /\ dataframes.sales_orders[j].TotalDue = p[2]}
    IN SumOver(matched, [p \in matched |-> p[2]])

\* C22 (as claimed): when at most half of the unpaid invoices find an amount
\* row in sales_orders, or sales_orders is absent, every customer's
\* TotalBalance is 0 and InvoiceCount is the customer's number of unpaid
\* invoices; when more than half find one, TotalBalance is the sum of the
\* matched TotalDue amounts of the customer.
C22_FallbackOnTrueMatchRate ==
    (review_result.returned /\ review_result.outcome = "analyzed") =>
        \A k \in DOMAIN review_result.balance_analysis :
            LET row == review_result.balance_analysis[k]
            IN IF \/ ~dataframes.has_sales_orders
                  \/ 2 * Cardinality(BalanceMatched) <= Len(BalanceUnpaid)
               THEN /\ row.TotalBalance = 0
                    /\ row.InvoiceCount =
                         Cardinality({i \in DOMAIN BalanceUnpaid :
                                         BalanceUnpaid[i].CustID = row.CustID})
               ELSE row.TotalBalance = MatchedTotalDue(row.CustID)

(***************************************************************************)
(* Which invoices the stored report holds.                                 *)
(***************************************************************************)
\* The dates an invoice resolves to: its InvoiceDate, or, when that is
\* missing, the OrderDate of an order row of the invoice.
ResolvableDates(inv) ==
    IF inv.InvoiceDate # NaN THEN {inv.InvoiceDate}
    ELSE {o.OrderDate : o \in {x \in Range(dataframes.sales_orders) :
                                  x.InvoiceID = inv.InvoiceID}} \ {NaN}

\* Unpaid, dated, and within [-30, 365] days of the as-of date of the last call.
Qualifies(inv) ==
    /\ ~inv.IsPaid
    /\ \E d \in ResolvableDates(inv) :
          /\ last_call.as_of_date - d >= -30
          /\ last_call.as_of_date - d <= 365

\* The distinct order amounts of the qualifying invoices of customer c, summed.
QualifyingTotalDue(c) ==
    LET invs == {inv \in Range(dataframes.customer_invoices) :
                    Qualifies(inv) /\ inv.CustID = c}
        amounts == {<<o.InvoiceID, o.TotalDue>> :
                        o \in {x \in Range(dataframes.sales_orders) :
                                  \E inv \in invs : inv.InvoiceID = x.InvoiceID}}
    IN SumOver(amounts, [p \in amounts |-> Amount(p[2])])

\* C23: after a call that stores a report, detailed has a row for an invoice
\* exactly when the invoice is unpaid, has a resolvable date and has
\* DaysPastDue in [-30, 365], endpoints included; every summary row is the
\* total of a customer's qualifying invoices and every over_90_days row is a
\* customer with a qualifying invoice more than 90 days past due.
C23_DetailedIffQualifies ==
    last_call.outcome = "stored" =>
        /\ \A inv \in Range(dataframes.customer_invoices) :
              (\E r \in Range(aging_report.detailed) : r.InvoiceID = inv.InvoiceID)
                  <=> Qualifies(inv)
        /\ \A r \in Range(aging_report.detailed) :
              /\ r.DaysPastDue >= -30
              /\ r.DaysPastDue <= 365
        /\ \A r \in Range(aging_report.summary.rows) :
              r.Total = QualifyingTotalDue(r.CustID)
        /\ \A r \in Range(aging_report.over_90_days) :
              \E inv \in Range(dataframes.customer_invoices) :
                  /\ Qualifies(inv)
                  /\ inv.CustID = r.CustID
                  /\ \E d \in ResolvableDates(inv) : last_call.as_of_date - d > 90

\* A stored report with an invoice exactly 365 days past due, while an unpaid
\* invoice out of the range and a paid invoice are left out.
C23_Witness ==
    /\ last_call.outcome = "stored"
    /\ \E r \in Range(aging_report.detailed) : r.DaysPastDue = 365
    /\ \E inv \in Range(dataframes.customer_invoices) :
          /\ ~inv.IsPaid
          /\ inv.InvoiceDate # NaN
          /\ last_call.as_of_date - inv.InvoiceDate > 365
          /\ \A r \in Range(aging_report.detailed) : r.InvoiceID # inv.InvoiceID

\* C24: in every stored report over_90_days has exactly one row for each
\* customer with a detailed invoice in bucket 90+, its TotalDue being the
\* customer's 90+ cell of summary, and no row for any other customer.
C24_Over90PerCustomer ==
    ~aging_report.is_none =>
        LET over == {r.CustID : r \in {x \in Range(aging_report.detailed) :
                                          x.AgingBucket = "90+" /\ x.CustID # NaN}}
            rows == aging_report.over_90_days
        IN /\ {rows[i].CustID : i \in DOMAIN rows} = over
           /\ \A i, j \in DOMAIN rows : rows[i].CustID = rows[j].CustID => i = j
           /\ \A i \in DOMAIN rows :
                 \E s \in Range(aging_report.summary.rows) :
                     /\ s.CustID = rows[i].CustID
                     /\ "90+" \in aging_report.summary.columns
                     /\ s.cells["90+"] = rows[i].TotalDue

\* A stored report where one customer is over 90 days with a positive amount
\* and another customer of the summary is not.
C24_Witness ==
    /\ ~aging_report.is_none
    /\ \E r \in Range(aging_report.over_90_days) : r.TotalDue > 0
    /\ \E s \in Range(aging_report.summary.rows) :
          \A r \in Range(aging_report.over_90_days) : r.CustID # s.CustID

\* C25 (as claimed): whenever detailed of the stored report has an invoice
\* with negative DaysPastDue, validate_analysis_results recommends reviewing
\* the future-dated invoices, and likewise flags DaysPastDue above 365,
\* whether or not over_90_days has rows.
C25_NegativeDaysFlagged ==
    ~aging_report.is_none =>
        LET recommendations ==
                Range(validate_analysis_results(aging_report).recommendations)
        IN /\ (\E r \in Range(aging_report.detailed) : r.DaysPastDue < 0)
                 => "invoices show negative days past due (future dated)"
                        \in recommendations
           /\ (\E r \in Range(aging_report.detailed) : r.DaysPastDue > 365)
                 => "Some invoices are more than 365 days past due"
                        \in recommendations

\* C28 (as claimed): detailed of a stored report has at most one row per
\* InvoiceID and metadata.total_invoices is the number of distinct invoices
\* in detailed, whatever order rows sales_orders holds for an invoice.
C28_OneRowPerInvoice ==
    ~aging_report.is_none =>
        /\ \A i, j \in DOMAIN aging_report.detailed :
              aging_report.detailed[i].InvoiceID = aging_report.detailed[j].InvoiceID
                  => i = j
        /\ aging_report.metadata.total_invoices =
              Cardinality({r.InvoiceID : r \in Range(aging_report.detailed)})

MaxAmountColumns == 2

\* The headers a client file is written with: every key of column_mappings
\* and the canonical names that are not keys, each with its characters.
HeaderChars ==
    ("customer_id" :> <<"c", "u", "s", "t", "o", "m", "e", "r", "_", "i", "d">>)
    @@ ("customerid" :> <<"c", "u", "s", "t", "o", "m", "e", "r", "i", "d">>)
    @@ ("customer" :> <<"c", "u", "s", "t", "o", "m", "e", "r">>)
    @@ ("cust_id" :> <<"c", "u", "s", "t", "_", "i", "d">>)
    @@ ("total_due" :> <<"t", "o", "t", "a", "l", "_", "d", "u", "e">>)
    @@ ("totaldue" :> <<"t", "o", "t", "a", "l", "d", "u", "e">>)
    @@ ("amount_due" :> <<"a", "m", "o", "u", "n", "t", "_", "d", "u", "e">>)
    @@ ("balance" :> <<"b", "a", "l", "a", "n", "c", "e">>)
    @@ ("aging_90+" :> <<"a", "g", "i", "n", "g", "_", "9", "0", "+">>)
    @@ ("aging_90" :> <<"a", "g", "i", "n", "g", "_", "9", "0">>)
    @@ ("over_90" :> <<"o", "v", "e", "r", "_", "9", "0">>)
    @@ ("past_due_90" :> <<"p", "a", "s", "t", "_", "d", "u", "e", "_", "9", "0">>)
    @@ ("current_90+" :> <<"c", "u", "r", "r", "e", "n", "t", "_", "9", "0", "+">>)
    @@ ("0-30_days" :> <<"0", "-", "3", "0", "_", "d", "a", "y", "s">>)
    @@ ("0-30" :> <<"0", "-", "3", "0">>)
    @@ ("current" :> <<"c", "u", "r", "r", "e", "n", "t">>)
    @@ ("31-60_days" :> <<"3", "1", "-", "6", "0", "_", "d", "a", "y", "s">>)
    @@ ("31-60" :> <<"3", "1", "-", "6", "0">>)
    @@ ("61-90_days" :> <<"6", "1", "-", "9", "0", "_", "d", "a", "y", "s">>)
    @@ ("61-90" :> <<"6", "1", "-", "9", "0">>)
    @@ ("CustID" :> <<"C", "u", "s", "t", "I", "D">>)
    @@ ("TotalDue" :> <<"T", "o", "t", "a", "l", "D", "u", "e">>)
    @@ ("90+" :> <<"9", "0", "+">>)

\* The canonical column a header stands for according to the synonym table;
\* a canonical name stands for itself.
CanonicalTarget(name) ==
    IF name \in DOMAIN column_mappings THEN column_mappings[name] ELSE name

CustomerHeaders == {n \in DOMAIN HeaderChars : CanonicalTarget(n) = "CustID"}
AmountHeaders == DOMAIN HeaderChars \ CustomerHeaders

\* The header rows of a client file: a customer column, then amount columns
\* no two of which stand for the same canonical column.
ClientHeaderRows ==
    {<<c>> \o a : c \in CustomerHeaders,
                  a \in {s \in SeqsUpTo(AmountHeaders, MaxAmountColumns) :
                            \A i, j \in DOMAIN s :
                                CanonicalTarget(s[i]) = CanonicalTarget(s[j]) => i = j}}

\* A client table: its headers as written, their characters, and one row.
HeaderTables ==
    {[given |-> TRUE, names |-> h,
      headers |-> [i \in DOMAIN h |-> HeaderChars[h[i]]],
      rows |-> <<[id |-> 1, amount |-> 4000]>>] : h \in ClientHeaderRows}

InitHeaders ==
    /\ review_call \in {[client_data |-> t] : t \in HeaderTables}
    /\ review_result = NoResult
    /\ IdleAging /\ IdleMerge /\ IdleBucket /\ IdleThreeWay

CallPreprocessClientData ==
    /\ ~review_result.returned
    /\ review_result' = [returned |-> TRUE,
                         result |-> preprocess_client_data(review_call.client_data)]
    /\ UNCHANGED <<review_call, aging_vars, merge_vars, bucket_vars, tw_vars>>

SpecHeaders == InitHeaders /\ [][CallPreprocessClientData]_vars

\* C27 (as claimed): a client table whose columns are named by keys of the
\* synonym table or by canonical names is accepted by _preprocess_client_data
\* and every column is resolved to the canonical column it stands for.
C27_SynonymsResolve ==
    review_result.returned =>
        /\ ~review_result.result.raised
        /\ review_result.result.columns =
              {CanonicalTarget(n) : n \in Range(review_call.client_data.names)}

(***************************************************************************)
(* SpecReview: analyses, comparisons, allowance assessments and            *)
(* validations on one analyzer, in any order.                              *)
(***************************************************************************)
\* client_dataframe: None, a table with a resolvable customer column, and a
\* table whose customer column does not resolve.
ReviewClientTables ==
    {[given |-> FALSE, headers |-> <<>>, rows |-> <<>>],
     [given |-> TRUE, headers |-> <<Header_CustomerID, Header_90>>,
      rows |-> <<[id |-> 1, amount |-> 4000]>>],
     [given |-> TRUE, headers |-> <<Header_CustID, Header_90>>,
      rows |-> <<[id |-> 1, amount |-> 4000]>>]}

\* The optional arguments left at None.
NoBucketArg == [given |-> FALSE, list |-> <<>>]
NoPercentageArg == [given |-> FALSE, dict |-> <<>>]
NoComparisonArg ==
    [given |-> FALSE, has_metrics |-> FALSE, agrees |-> FALSE,
     overall_difference_pct |-> [num |-> 0, den |-> 1]]

CallValidateAnalysisResults ==
    /\ review_call' = [op |-> "validate_analysis_results"]
    /\ review_result' = [returned |-> TRUE,
                         result |-> validate_analysis_results(aging_report)]
    /\ aging_report' = ReportAfterReview(aging_report)
    /\ UNCHANGED <<dataframes, pandas_observed, pandas_datetime_unit, last_call,
                   merge_vars, bucket_vars, tw_vars>>

NextReview ==
    \/ perform_aging_analysis(NaN)
    \/ \E c \in ReviewClientTables : CallCompareWithClient(c, NoBucketArg, 1)
    \/ \E a \in ClientAllowances :
          CallAssessAllowance(a, NoBucketArg, NoPercentageArg, NoComparisonArg)
    \/ CallValidateAnalysisResults

SpecReview == InitClientCompare /\ [][NextReview]_vars

ExcelFiles ==
    {"sales_orders", "shipments", "customer_invoices", "customer_master", "products",
     "sales_territory"}

\* required_dfs of _validate_data_loading.
RequiredDataFrames ==
    {"sales_orders", "customer_invoices", "products", "shipments", "customer_master"}

FileStates == {"absent", "empty", "rows"}

DataDirs == {f \in [ExcelFiles -> FileStates] : f["sales_territory"] = "rows"}

\* The attributes UMDDataLoader.__init__ gives the loader object.
LoaderAttributes == {"data_dir", "dataframes"}

\* The keys load_all_files stores in self.dataframes: a file that is absent or
\* has no rows is logged as failed and not stored.
load_all_files(files) == {k \in ExcelFiles : files[k] = "rows"}

\* missing_dfs of _validate_data_loading, which looks the tables up in the
\* loader's attribute `dfs`.
MissingDataFrames(loader) ==
    IF "dfs" \notin loader.attributes THEN RequiredDataFrames
    ELSE {n \in RequiredDataFrames : n \notin loader.dfs}

\* The entries every completed run puts in self.results, and the entries a
\* failing step adds.
CompletedEntries ==
    {"data_summary", "revenue_verification", "ar_verification", "three_way_match",
     "credit_analysis", "aging_analysis", "fraud_detection", "overall_assessment"}
StepErrorEntries == {"data_cleaning_errors", "analyzer_errors", "validation_warnings"}

InitPipeline ==
    /\ dataframes \in {[files |-> f, attributes |-> LoaderAttributes, dataframes |-> {}] :
                          f \in DataDirs}
    /\ pandas_observed = FALSE
    /\ pandas_datetime_unit = "ns"
    /\ aging_report = NoReport
    /\ last_call = NoCall
    /\ review_call = <<>>
    /\ review_result = NoResult
    /\ IdleMerge /\ IdleBucket /\ IdleThreeWay

\* The keys of the returned self.results.
run_complete_analysis ==
    /\ ~review_result.returned
    /\ dataframes' = [dataframes EXCEPT !.dataframes = load_all_files(dataframes.files)]
    /\ IF MissingDataFrames(dataframes') # {}
       THEN review_result' = [returned |-> TRUE, results |-> {"data_loading_errors"}]
       ELSE \E errors \in SUBSET StepErrorEntries :
               review_result' = [returned |-> TRUE,
                                 results |-> CompletedEntries \cup errors]
    /\ UNCHANGED <<pandas_observed, pandas_datetime_unit, aging_report, last_call,
                   review_call, merge_vars, bucket_vars, tw_vars>>

SpecPipeline == InitPipeline /\ [][run_complete_analysis]_vars

\* C30 (as claimed): when sales_orders, customer_invoices, products,
\* shipments and customer_master were all loaded with rows, the results of
\* run_complete_analysis hold overall_assessment and no data_loading_errors.
C30_LoadedDataPassesValidation ==
    (/\ review_result.returned
     /\ \A n \in RequiredDataFrames : n \in dataframes.dataframes)
        => /\ "overall_assessment" \in review_result.results
           /\ "data_loading_errors" \notin review_result.results

====
